---- MODULE Spec2Model ----
(***************************************************************************)
(* Model of the ragpipes pipeline core: the MQTT dispatcher (on_message),  *)
(* the pydantic payload validation of the stage handlers, the stage        *)
(* handlers' treatment of external failures, the retrieve/generate graph   *)
(* of the chat stage, the workflow history protocol, the text chunking of  *)
(* the ingestion path and the documents and metadata the chunker,          *)
(* translate, web-loader and ingestion stages build.                       *)
(***************************************************************************)
EXTENDS Integers, Sequences, FiniteSets, TLC

VARIABLES
    handlerName,   \* settings.mqtt.handler
    topicOut,      \* settings.mqtt.topic_out, a string (sequence of characters)
    pc,            \* position of the dispatcher inside / between on_message calls
    msgCount,      \* number of inbound messages taken so far
    payload,       \* json.loads(...) result of the message being processed
    model,         \* the validated InputModel of the chat handler
    graphNode,     \* node of the chat StateGraph that completed last
    retrieveRuns,  \* executions of retrieve() within the current graph.invoke
    generateRuns,  \* executions of generate() within the current graph.invoke
    context,       \* State["context"]: the retrieved documents
    genInput,      \* what generate() handed to prompt.invoke / llm.invoke
    answer,        \* State["answer"]
    outcome,       \* how the handler call of the last message ended
    handlerCalls,  \* handler invocations made for the current message
    published,     \* mqttc.publish calls made for the current message
    crashed,       \* an exception escaped on_message
    hadRaise,      \* the handler raised for some earlier message
    vstage,        \* direct handler call: the stage whose handler is called
    vpayload,      \* direct handler call: the payload
    vpc,           \* direct handler call: position
    vresult,       \* direct handler call: result of validate_payload / handler
    wfpc,          \* workflow: which Workflow object is live (tests.py)
    wfHist,        \* workflow: Workflow.history of the live object
    wfFirst,       \* workflow: the model_dump_json output that was taken first
    wfSecond,      \* workflow: the model_dump_json output of the reloaded object
    wfLast,        \* workflow: the last operation, its return value and _run output
    stext,         \* chunking: the text handed to process_text
    ssize,         \* chunking: chunk_size
    soverlap,      \* chunking: chunk_overlap
    spc,           \* chunking: position of the call
    sres,          \* chunking: what _split_text appended and what it returned
    kstage,        \* documents: the stage called with documents
    kin,           \* documents: what it was called with
    kout,          \* documents: what it built and what it returned
    gpc,           \* vector store: position of the one call made
    gcoll,         \* vector store: the collection, entries in insertion order
    gin,           \* vector store: what the method was called with
    gres,          \* vector store: how the call ended and what it returned
    inst,          \* API process: which of the five module globals are set
    retr,          \* API process: top_k of each RAGRetriever built so far
    calls          \* API process: the /query requests in flight

vars == <<handlerName, topicOut, pc, msgCount, payload, model, graphNode,
          retrieveRuns, generateRuns, context, genInput, answer, outcome,
          handlerCalls, published, crashed, hadRaise,
          vstage, vpayload, vpc, vresult,
          wfpc, wfHist, wfFirst, wfSecond, wfLast,
          stext, ssize, soverlap, spc, sres,
          kstage, kin, kout,
          gpc, gcoll, gin, gres,
          inst, retr, calls>>

dispVars == <<handlerName, topicOut, pc, msgCount, payload, model, graphNode,
              retrieveRuns, generateRuns, context, genInput, answer, outcome,
              handlerCalls, published, crashed, hadRaise>>

valVars == <<vstage, vpayload, vpc, vresult>>

wfVars == <<wfpc, wfHist, wfFirst, wfSecond, wfLast>>

\* What a dispatcher step, a direct handler call and a workflow step leave alone.
splitVars == <<stext, ssize, soverlap, spc, sres>>

\* What a dispatcher step, a direct handler call, a workflow step, a
\* chunking step and a call of a stage with documents leave alone.
docVars == <<kstage, kin, kout>>

storeVars == <<gpc, gcoll, gin, gres>>

apiVars == <<inst, retr, calls>>

besideDisp == <<valVars, wfVars, splitVars, docVars, storeVars, apiVars>>

besideVal == <<dispVars, wfVars, splitVars, docVars, storeVars, apiVars>>

besideWf == <<dispVars, valVars, splitVars, docVars, storeVars, apiVars>>

besideSplit == <<dispVars, valVars, wfVars, docVars, storeVars, apiVars>>

besideDocs == <<dispVars, valVars, wfVars, splitVars, storeVars, apiVars>>

besideStore == <<dispVars, valVars, wfVars, splitVars, docVars, apiVars>>

besideApi == <<dispVars, valVars, wfVars, splitVars, docVars, storeVars>>

(***************************************************************************)
(* Bounds                                                                  *)
(***************************************************************************)
MaxMsgs == 2
PoolSize == 6

(***************************************************************************)
(* JSON values.  A field value is absent, a mapping with a set of keys, a  *)
(* list with a set of string items, a string in which a set of keys occur  *)
(* as substrings, a number or null.                                        *)
(***************************************************************************)
Keys == {"query", "url", "docs", "text"}

Absent == [t |-> "absent", keys |-> {}]

\* The key sets of the containers considered: none of the keys, one of them,
\* or a required key next to another one.
KeySets == {{}} \cup { {k} : k \in Keys } \cup {{"query", "url"}}

Containers == [t : {"map", "list", "str"}, keys : KeySets]

Scalars == [t : {"num", "null"}, keys : {{}}]

FieldValues == {Absent} \cup Containers \cup Scalars

MetaValues == {Absent, [t |-> "map", keys |-> {}], [t |-> "num", keys |-> {}]}

\* A decoded payload: top is the JSON type of the whole payload.  An object
\* carries an options field or a data field (the two envelope shapes of the
\* handlers), or neither.
ObjectPayloads ==
    { [top |-> "obj", options |-> o, data |-> d, metadata |-> m] :
        o \in FieldValues, d \in {Absent}, m \in MetaValues }
    \cup
    { [top |-> "obj", options |-> o, data |-> d, metadata |-> m] :
        o \in {Absent}, d \in FieldValues, m \in MetaValues }

NonObjectPayloads ==
    { [top |-> t, options |-> Absent, data |-> Absent, metadata |-> Absent] :
        t \in {"num", "list", "null", "str"} }

Payloads == ObjectPayloads \cup NonObjectPayloads

NoPayload == [top |-> "none", options |-> Absent, data |-> Absent, metadata |-> Absent]

\* Python's `key in v`: membership for a mapping or a list, substring test for
\* a string; for a number or None it raises TypeError.
SupportsIn(v) == v.t \in {"map", "list", "str"}

(***************************************************************************)
(* handlers/utils.py                                                       *)
(***************************************************************************)
\* validate_options: "ok" (returns options), "ValueError" or "TypeError".
\* required_keys is a sequence, checked in order.
RECURSIVE validate_options(_, _)
validate_options(options, required_keys) ==
    IF required_keys = <<>> THEN "ok"
    ELSE IF ~SupportsIn(options) THEN "TypeError"
    ELSE IF Head(required_keys) \notin options.keys THEN "ValueError"
    ELSE validate_options(options, Tail(required_keys))

\* The required options keys an InputModel declares (field_validator on
\* "options", mode="before").
RequiredOptions(stage) ==
    CASE stage = "chat" -> <<"query">>
      [] stage = "loader.sitemap" -> <<"url">>
      [] OTHER -> <<>>

\* pydantic validation of the options field of MessageBody: a field that is
\* absent takes its default and its validators do not run; a "before"
\* validator runs ahead of the Dict[str, Any] type check; a ValueError raised
\* by the validator becomes a validation error, any other exception
\* propagates out of model_validate.
OptionsField(stage, v) ==
    IF v = Absent THEN "ok"
    ELSE LET r == validate_options(v, RequiredOptions(stage))
         IN  IF r = "TypeError" THEN "TypeError"
             ELSE IF r = "ValueError" THEN "invalid"
             ELSE IF v.t = "map" THEN "ok" ELSE "invalid"

\* metadata: Dict[str, Any] = {}
MetadataField(v) == IF v.t \in {"absent", "map"} THEN "ok" ELSE "invalid"

\* model.model_validate(payload) for the options-shaped MessageBody:
\* "ok", "ValidationError" or "TypeError".  Fields are validated in
\* declaration order (docs, options, outputs, metadata); unknown keys are
\* ignored.
model_validate(stage, p) ==
    IF p.top # "obj" THEN "ValidationError"
    ELSE LET o == OptionsField(stage, p.options)
         IN  IF o = "TypeError" THEN "TypeError"
             ELSE IF o = "invalid" \/ MetadataField(p.metadata) = "invalid"
                  THEN "ValidationError"
                  ELSE "ok"

\* validate_payload: "model" (the validated model is returned), "none"
\* (ValidationError caught, None returned) or "TypeError" (raised).
validate_payload(stage, p) ==
    LET r == model_validate(stage, p)
    IN  IF r = "ValidationError" THEN "none"
        ELSE IF r = "ok" THEN "model"
        ELSE r

\* The validated model: options and metadata with defaults filled in.
ValidatedModel(p) ==
    [options |-> IF p.options = Absent THEN {} ELSE p.options.keys,
     metadata |-> "meta"]

NoModel == [options |-> {}, metadata |-> "none"]

(***************************************************************************)
(* Envelopes (MessageBody) and handler outcomes.  A mapping is a sequence  *)
(* of <<key, value>> pairs.                                                *)
(***************************************************************************)
MessageBody(docs, outputs, metadata) ==
    [docs |-> docs, options |-> <<>>, outputs |-> outputs, metadata |-> metadata]

NoEnvelope == [docs |-> <<>>, options |-> <<>>, outputs |-> <<>>, metadata |-> "none"]

\* How a handler call ended: it returned None, raised, or returned an
\* envelope; cause says what made it return None or raise.
ReturnNone(cause) == [kind |-> "none", cause |-> cause, env |-> NoEnvelope]

Raise(cause) == [kind |-> "raise", cause |-> cause, env |-> NoEnvelope]

ReturnEnvelope(env) == [kind |-> "env", cause |-> "-", env |-> env]

Pending == [kind |-> "pending", cause |-> "-", env |-> NoEnvelope]

\* What an external loader does: it fails, or hands back documents (content
\* abstracted to a tag).
LoadResults ==
    {[ok |-> FALSE, docs |-> <<>>]}
    \cup { [ok |-> TRUE, docs |-> d] : d \in {<<>>, <<"page">>, <<"page", "page2">>} }

(***************************************************************************)
(* handlers/loader_sitemap.py                                              *)
(***************************************************************************)
\* handler(_payload, settings) of the sitemap loader; ext is what
\* SitemapLoader(url).load() does.
loader_sitemap_handler(p, ext) ==
    LET v == validate_payload("loader.sitemap", p)
    IN  IF v = "TypeError" THEN Raise("TypeError")
        ELSE IF v = "none" THEN ReturnNone("validation")
        ELSE IF ~ext.ok THEN ReturnNone("external")
        ELSE ReturnEnvelope(MessageBody(ext.docs, <<>>, ValidatedModel(p).metadata))

(***************************************************************************)
(* The handlers with the data-shaped MessageBody (data: Any, required;     *)
(* metadata: dict = {}) and a "before" validator on data.                  *)
(***************************************************************************)
\* The validate_keys validator on "data": `if key not in v: raise ValueError`.
DataField(key, v) ==
    IF v = Absent THEN "invalid"
    ELSE IF ~SupportsIn(v) THEN "TypeError"
    ELSE IF key \notin v.keys THEN "invalid"
    ELSE "ok"

\* validate_payload(InputModel, _payload) for a data-shaped InputModel.
validate_data_payload(key, p) ==
    IF p.top # "obj" THEN "none"
    ELSE LET d == DataField(key, p.data)
         IN  IF d = "TypeError" THEN "TypeError"
             ELSE IF d = "invalid" \/ MetadataField(p.metadata) = "invalid"
                  THEN "none"
                  ELSE "model"

\* payload.data[key] after validation: only a mapping can be indexed by a
\* string; a list or a string that passed the `in` test raises TypeError.
Subscriptable(p) == p.data.t = "map"

\* What the external collaborators of one handler call do: all succeed, the
\* client / connection setup fails, the main call fails, or a docs entry
\* lacks a field the handler indexes.
ExtOutcomes == {"ok", "fail_setup", "fail_call", "bad_doc"}

\* loader_web_handler without the try block around the loader.
loader_web_handler_notry(p, ext) ==
    LET v == validate_data_payload("url", p)
    IN  IF v = "TypeError" THEN Raise("TypeError")
        ELSE IF v = "none" THEN ReturnNone("validation")
        ELSE IF ~Subscriptable(p) THEN Raise("TypeError")
        ELSE IF ext \in {"fail_setup", "fail_call"} THEN Raise("external")
        ELSE ReturnEnvelope(MessageBody(<<"page">>, <<>>, "meta"))

\* handlers/loader_web.py
loader_web_handler(p, ext) ==
    LET v == validate_data_payload("url", p)
    IN  IF v = "TypeError" THEN Raise("TypeError")
        ELSE IF v = "none" THEN ReturnNone("validation")
        ELSE IF ~Subscriptable(p) THEN Raise("TypeError")
        ELSE IF ext \in {"fail_setup", "fail_call"} THEN ReturnNone("external")
        ELSE ReturnEnvelope(MessageBody(<<"page">>, <<>>, "meta"))

\* handlers/loader_wikipedia.py
loader_wikipedia_handler(p, ext) ==
    LET v == validate_data_payload("query", p)
    IN  IF v = "TypeError" THEN Raise("TypeError")
        ELSE IF v = "none" THEN ReturnNone("validation")
        ELSE IF ~Subscriptable(p) THEN Raise("TypeError")
        ELSE IF ext \in {"fail_setup", "fail_call"} THEN Raise("external")
        ELSE ReturnEnvelope(MessageBody(<<"page">>, <<>>, "meta"))

\* handlers/loader_text.py
loader_text_handler(p, ext) ==
    LET v == validate_data_payload("text", p)
    IN  IF v = "TypeError" THEN Raise("TypeError")
        ELSE IF v = "none" THEN ReturnNone("validation")
        ELSE IF ~Subscriptable(p) THEN Raise("TypeError")
        ELSE IF ext = "bad_doc" THEN ReturnNone("document")
        ELSE ReturnEnvelope(MessageBody(<<"page">>, <<>>, "meta"))

\* handlers/vectorstore.py
vectorstore_handler(p, ext) ==
    LET v == validate_data_payload("docs", p)
    IN  IF v = "TypeError" THEN Raise("TypeError")
        ELSE IF v = "none" THEN ReturnNone("validation")
        ELSE IF ~Subscriptable(p) THEN Raise("TypeError")
        ELSE IF ext = "fail_setup" THEN Raise("external")
        ELSE IF ext = "bad_doc" THEN Raise("KeyError")
        ELSE IF ext = "fail_call" THEN ReturnNone("external")
        ELSE ReturnEnvelope(MessageBody(<<>>, <<<<"added", 1>>>>, "meta"))

\* handlers/chunker.py
chunker_handler(p, ext) ==
    LET v == validate_data_payload("docs", p)
    IN  IF v = "TypeError" THEN Raise("TypeError")
        ELSE IF v = "none" THEN ReturnNone("validation")
        ELSE IF ~Subscriptable(p) THEN Raise("TypeError")
        ELSE IF ext = "bad_doc" THEN Raise("KeyError")
        ELSE ReturnEnvelope(MessageBody(<<"chunk">>, <<>>, "meta"))

\* handlers/translate_llmtranslate.py: validates against MessageBody itself
\* (no required key); len(docs) of a missing docs option raises TypeError.
translate_llmtranslate_handler(p, ext) ==
    LET v == validate_payload("translate.llmtranslate", p)
    IN  IF v = "TypeError" THEN Raise("TypeError")
        ELSE IF v = "none" THEN ReturnNone("validation")
        ELSE IF "docs" \notin ValidatedModel(p).options THEN Raise("TypeError")
        ELSE IF ext \in {"fail_setup", "fail_call"} THEN Raise("external")
        ELSE IF ext = "bad_doc" THEN Raise("KeyError")
        ELSE ReturnEnvelope(MessageBody(<<"page">>, <<>>, "meta"))

(***************************************************************************)
(* handlers/chat.py                                                        *)
(***************************************************************************)
\* similarity_search(question, k=5, ...)
K == 5

\* context = [... for doc in response["context"][:2]]
ContextCap == 2

Min(a, b) == IF a < b THEN a ELSE b

Take(s, n) == SubSeq(s, 1, Min(n, Len(s)))

\* The documents the vector store may hold.
DocIds == 1..PoolSize

Content(i) == [j \in 1..(i % 3) |-> IF (i + j) % 2 = 0 THEN "a" ELSE "b"]

Doc(i) == [id |-> i, page_content |-> Content(i), metadata |-> <<<<"filename", i>>>>]

\* The store's ranking of a set of matching documents: by id, ascending or
\* descending.
RECURSIVE Ranked(_, _)
Ranked(S, desc) ==
    IF S = {} THEN <<>>
    ELSE LET x == IF desc THEN CHOOSE y \in S : \A z \in S : z <= y
                          ELSE CHOOSE y \in S : \A z \in S : y <= z
         IN  <<Doc(x)>> \o Ranked(S \ {x}, desc)

\* vector_store.similarity_search(question, k=5, filter=payload.metadata):
\* the k best ranked of the matching documents.
similarity_search(matching, desc) == Take(Ranked(matching, desc), K)

\* JoinContents over the cited documents only.
RECURSIVE JoinContents_cited(_)
JoinContents_cited(docs) ==
    IF docs = <<>> THEN <<>>
    ELSE IF Len(docs) = 1 THEN Head(docs).page_content
    ELSE Head(docs).page_content \o <<"\n", "\n">>
           \o JoinContents_cited(Take(Tail(docs), ContextCap - 1))

\* "\n\n".join(doc.page_content for doc in state["context"])
RECURSIVE JoinContents(_)
JoinContents(docs) ==
    IF docs = <<>> THEN <<>>
    ELSE IF Len(docs) = 1 THEN Head(docs).page_content
    ELSE Head(docs).page_content \o <<"\n", "\n">> \o JoinContents(Tail(docs))

\* Edges with a retry edge from generate back to retrieve.
Edges_retry ==
    {<<"__start__", "retrieve">>, <<"retrieve", "generate">>, <<"generate", "retrieve">>}

\* The edges of the compiled graph:
\* StateGraph(State).add_sequence([retrieve, generate]); add_edge(START, "retrieve")
Edges == {<<"__start__", "retrieve">>, <<"retrieve", "generate">>}

\* The node the graph runs after node n; a node without successor is final.
HasNext(n) == \E e \in Edges : e[1] = n

NextNode(n) == (CHOOSE e \in Edges : e[1] = n)[2]

\* query = payload.options.get("query")
Query(m) == IF "query" \in m.options THEN "q" ELSE "None"

\* ContextExtract without the [:2] cap.
ContextExtract_all(ctx) ==
    [i \in 1..Len(ctx) |->
        [id |-> ctx[i].id, content |-> ctx[i].page_content, metadata |-> ctx[i].metadata]]

\* The context extract of the output envelope.
ContextExtract(ctx) ==
    [i \in 1..Len(Take(ctx, ContextCap)) |->
        [id |-> ctx[i].id, content |-> ctx[i].page_content, metadata |-> ctx[i].metadata]]

\* outputs = dict(answer=answer, context=context);
\* MessageBody(outputs=outputs, metadata=payload.metadata)
ChatEnvelope(ans, ctx, m) ==
    MessageBody(<<>>, <<<<"answer", ans>>, <<"context", ContextExtract(ctx)>>>>, m.metadata)

(***************************************************************************)
(* __main__.py: the dispatcher                                             *)
(***************************************************************************)
TOPIC_DELIMITER == ","

HANDLERS == {"chunker", "loader.text", "loader.web", "loader.wikipedia",
             "translate.llmtranslate", "vectorstore", "chat"}

\* Values of settings.mqtt.handler: a key of HANDLERS, a stage that has a
\* handler module but no entry in HANDLERS, or the unset default.
HandlerSettings == HANDLERS \cup {"loader.sitemap", "None"}

\* Values of settings.mqtt.topic_out: comma-delimited lists of topic names.
TopicSettings == { <<"a">>, <<"a", ",", "b">>, <<"a", "b", ",", "c">>,
                   <<"a", ",", "a">>, <<"a", ",", "b", ",", "c">> }

\* str.split(delimiter)
RECURSIVE SplitFrom(_, _, _)
SplitFrom(str, delim, cur) ==
    IF str = <<>> THEN <<cur>>
    ELSE IF Head(str) = delim THEN <<cur>> \o SplitFrom(Tail(str), delim, <<>>)
    ELSE SplitFrom(Tail(str), delim, Append(cur, Head(str)))

Split(str, delim) == SplitFrom(str, delim, <<>>)

\* response.model_dump_json(): the four fields of MessageBody in declaration order.
model_dump_json(env) ==
    <<"{", <<"docs", env.docs>>, <<"options", env.options>>,
           <<"outputs", env.outputs>>, <<"metadata", env.metadata>>, "}">>

\* PublishAll without the split: one publish to the whole topic_out string.
PublishAll_unsplit(topic_out, env) ==
    <<[topic |-> topic_out, body |-> model_dump_json(env)]>>

\* topics = settings.mqtt.topic_out.split(TOPIC_DELIMITER)
\* for topic in topics: mqttc.publish(topic, response.model_dump_json())
PublishAll(topic_out, env) ==
    LET topics == Split(topic_out, TOPIC_DELIMITER)
    IN  [i \in 1..Len(topics) |-> [topic |-> topics[i], body |-> model_dump_json(env)]]

\* PublishResponse without the `if response:` test on a raise.
PublishResponse_always(topic_out, o) ==
    IF o.kind \in {"env", "raise"} THEN PublishAll(topic_out, o.env) ELSE <<>>

\* `if response:` and the publish loop, for a handler call that ended with o.
PublishResponse(topic_out, o) ==
    IF o.kind = "env" THEN PublishAll(topic_out, o.env) ELSE <<>>

\* Inbound raw messages: bytes that are not UTF-8, text that is not JSON, or
\* the JSON text of a payload.
RawMessages ==
    { [enc |-> e, value |-> NoPayload] : e \in {"badutf8", "badjson"} }
    \cup { [enc |-> "json", value |-> p] : p \in Payloads }

\* json.loads(msg.payload.decode("utf-8")) under `except json.JSONDecodeError`:
\* UnicodeDecodeError is not a JSONDecodeError and is not caught.
Decode(raw) ==
    CASE raw.enc = "badutf8" -> "UnicodeDecodeError"
      [] raw.enc = "badjson" -> "JSONDecodeError"
      [] OTHER -> "ok"

\* The handlers that run without the graph, by their key in HANDLERS.
CallHandler(name, p, ext) ==
    CASE name = "chunker" -> chunker_handler(p, ext)
      [] name = "loader.text" -> loader_text_handler(p, ext)
      [] name = "loader.web" -> loader_web_handler(p, ext)
      [] name = "loader.wikipedia" -> loader_wikipedia_handler(p, ext)
      [] name = "translate.llmtranslate" -> translate_llmtranslate_handler(p, ext)
      [] name = "vectorstore" -> vectorstore_handler(p, ext)

NoGraph ==
    /\ graphNode' = "none"
    /\ retrieveRuns' = 0
    /\ generateRuns' = 0
    /\ context' = <<>>
    /\ genInput' = [called |-> FALSE, question |-> "None", context |-> <<>>]
    /\ answer' = "none"
    /\ model' = NoModel

InitD ==
    /\ handlerName \in HandlerSettings
    /\ topicOut \in TopicSettings
    /\ pc = "idle"
    /\ msgCount = 0
    /\ payload = NoPayload
    /\ model = NoModel
    /\ graphNode = "none"
    /\ retrieveRuns = 0
    /\ generateRuns = 0
    /\ context = <<>>
    /\ genInput = [called |-> FALSE, question |-> "None", context |-> <<>>]
    /\ answer = "none"
    /\ outcome = Pending
    /\ handlerCalls = 0
    /\ published = <<>>
    /\ crashed = FALSE
    /\ hadRaise = FALSE

\* on_message is entered with a raw message: lines 71-77.
Receive(raw) ==
    /\ pc = "idle"
    /\ msgCount < MaxMsgs
    /\ msgCount' = msgCount + 1
    /\ outcome' = IF Decode(raw) = "JSONDecodeError"
                  THEN [kind |-> "undecodable", cause |-> "-", env |-> NoEnvelope]
                  ELSE Pending
    /\ payload' = IF Decode(raw) = "ok" THEN raw.value ELSE NoPayload
    /\ pc' = CASE Decode(raw) = "ok" -> "decoded"
               [] Decode(raw) = "JSONDecodeError" -> "returned"
               [] OTHER -> "crashed"
    /\ crashed' = (Decode(raw) = "UnicodeDecodeError")
    /\ UNCHANGED <<handlerName, topicOut, hadRaise, model, graphNode, retrieveRuns,
                   generateRuns, context, genInput, answer, handlerCalls, published>>

\* How on_message ends once the handler call has ended with o: a raise is
\* caught by `except Exception`, a response is published: lines 87-95.
Finish(o) ==
    /\ outcome' = o
    /\ published' = PublishResponse(topicOut, o)
    /\ hadRaise' = (hadRaise \/ o.kind = "raise")
    /\ pc' = "returned"

\* DropUnknown with a fallback in place of the drop: an unknown stage name is
\* served by the chunker.
DropUnknown_fallback ==
    /\ pc = "decoded"
    /\ handlerName \notin HANDLERS
    /\ handlerCalls' = handlerCalls + 1
    /\ Finish(chunker_handler(payload, "ok"))
    /\ UNCHANGED <<handlerName, topicOut, msgCount, payload, model, graphNode,
                   retrieveRuns, generateRuns, context, genInput, answer, crashed>>

\* The else branch of the lookup: lines 83-85.
DropUnknown ==
    /\ pc = "decoded"
    /\ handlerName \notin HANDLERS
    /\ pc' = "returned"
    /\ outcome' = [kind |-> "unknown", cause |-> "-", env |-> NoEnvelope]
    /\ UNCHANGED <<handlerName, topicOut, msgCount, payload, model, graphNode,
                   retrieveRuns, generateRuns, context, genInput, answer,
                   handlerCalls, published, crashed, hadRaise>>

\* Lookup, handler call and publish for a handler other than chat.
Dispatch(ext) ==
    /\ pc = "decoded"
    /\ handlerName \in HANDLERS \ {"chat"}
    /\ handlerCalls' = handlerCalls + 1
    /\ Finish(CallHandler(handlerName, payload, ext))
    /\ UNCHANGED <<handlerName, topicOut, msgCount, payload, model, graphNode,
                   retrieveRuns, generateRuns, context, genInput, answer, crashed>>

\* The chat handler up to graph.invoke: chat.py lines 41-81.
ChatEnter(ext) ==
    /\ pc = "decoded"
    /\ handlerName = "chat"
    /\ handlerCalls' = handlerCalls + 1
    /\ LET v == validate_payload("chat", payload)
       IN  IF v = "none"
           THEN Finish(ReturnNone("validation")) /\ UNCHANGED <<model, graphNode>>
           ELSE IF v = "TypeError"
           THEN Finish(Raise("TypeError")) /\ UNCHANGED <<model, graphNode>>
           ELSE IF ext = "fail_setup"
           THEN Finish(Raise("external")) /\ UNCHANGED <<model, graphNode>>
           ELSE /\ model' = ValidatedModel(payload)
                /\ graphNode' = "__start__"
                /\ pc' = "graph"
                /\ UNCHANGED <<outcome, published, hadRaise>>
    /\ UNCHANGED <<handlerName, topicOut, msgCount, payload, retrieveRuns,
                   generateRuns, context, genInput, answer, crashed>>

\* The retrieve node: chat.py lines 58-62.  res is what similarity_search
\* does: it fails, or returns docs.
Retrieve(res) ==
    /\ pc = "graph"
    /\ HasNext(graphNode)
    /\ NextNode(graphNode) = "retrieve"
    /\ retrieveRuns' = retrieveRuns + 1
    /\ IF ~res.ok
       THEN Finish(Raise("external")) /\ UNCHANGED <<context, graphNode>>
       ELSE /\ context' = res.docs
            /\ graphNode' = "retrieve"
            /\ UNCHANGED <<outcome, published, hadRaise, pc>>
    /\ UNCHANGED <<handlerName, topicOut, msgCount, payload, model, generateRuns,
                   genInput, answer, handlerCalls, crashed>>

\* The generate node: chat.py lines 65-73.  res is what llm.invoke does.
Generate(res) ==
    /\ pc = "graph"
    /\ HasNext(graphNode)
    /\ NextNode(graphNode) = "generate"
    /\ generateRuns' = generateRuns + 1
    /\ genInput' = [called |-> TRUE, question |-> Query(model),
                    context |-> JoinContents(context)]
    /\ IF res = "fail"
       THEN Finish(Raise("external")) /\ UNCHANGED <<answer, graphNode>>
       ELSE /\ answer' = "answer"
            /\ graphNode' = "generate"
            /\ UNCHANGED <<outcome, published, hadRaise, pc>>
    /\ UNCHANGED <<handlerName, topicOut, msgCount, payload, model, retrieveRuns,
                   context, handlerCalls, crashed>>

\* graph.invoke returns; the envelope is built, returned and published:
\* chat.py lines 81-94, __main__.py lines 87-91.
ChatReturn ==
    /\ pc = "graph"
    /\ graphNode # "none"
    /\ ~HasNext(graphNode)
    /\ graphNode' = "__end__"
    /\ Finish(ReturnEnvelope(ChatEnvelope(answer, context, model)))
    /\ UNCHANGED <<handlerName, topicOut, msgCount, payload, model, retrieveRuns,
                   generateRuns, context, genInput, answer, handlerCalls, crashed>>

\* on_message has returned to the network loop: its locals are gone and the
\* dispatcher waits for the next message.
Return ==
    /\ pc = "returned"
    /\ pc' = "idle"
    /\ payload' = NoPayload
    /\ outcome' = Pending
    /\ handlerCalls' = 0
    /\ published' = <<>>
    /\ NoGraph
    /\ UNCHANGED <<handlerName, topicOut, msgCount, crashed, hadRaise>>

\* The sets of documents the store finds matching a query.
Matchings == {{}} \cup { lo..hi : lo \in DocIds, hi \in DocIds }

RetrieveResults ==
    {[ok |-> FALSE, docs |-> <<>>]}
    \cup { [ok |-> TRUE, docs |-> similarity_search(S, d)] :
              S \in Matchings, d \in BOOLEAN }

NextD ==
    \/ (\E raw \in RawMessages : Receive(raw) /\ UNCHANGED besideDisp)
    \/ (DropUnknown /\ UNCHANGED besideDisp)
    \/ (\E ext \in ExtOutcomes : Dispatch(ext) /\ UNCHANGED besideDisp)
    \/ (\E ext \in ExtOutcomes : ChatEnter(ext) /\ UNCHANGED besideDisp)
    \/ (\E res \in RetrieveResults : Retrieve(res) /\ UNCHANGED besideDisp)
    \/ (\E res \in {"ok", "fail"} : Generate(res) /\ UNCHANGED besideDisp)
    \/ (ChatReturn /\ UNCHANGED besideDisp)
    \/ (Return /\ UNCHANGED besideDisp)

(***************************************************************************)
(* A handler called directly with a decoded payload.                       *)
(***************************************************************************)
DirectStages == {"chat", "loader.sitemap"}

InitV ==
    /\ vstage \in DirectStages
    /\ vpayload \in Payloads
    /\ vpc = "call"
    /\ vresult = [validation |-> "pending", ret |-> Pending]

\* payload = validate_payload(InputModel, _payload)
VValidate ==
    /\ vpc = "call"
    /\ vpc' = "validated"
    /\ vresult' = [vresult EXCEPT !.validation = validate_payload(vstage, vpayload)]
    /\ UNCHANGED <<vstage, vpayload>>

\* if not payload: return None   (a TypeError has already left the handler)
VCheck ==
    /\ vpc = "validated"
    /\ vresult' = [vresult EXCEPT !.ret =
                     CASE vresult.validation = "none" -> ReturnNone("validation")
                       [] vresult.validation = "TypeError" -> Raise("TypeError")
                       [] OTHER -> Pending]
    /\ vpc' = IF vresult.validation = "model" THEN "body" ELSE "done"
    /\ UNCHANGED <<vstage, vpayload>>

\* The sitemap loader's body: the try block around SitemapLoader.
VSitemapBody(ext) ==
    /\ vpc = "body"
    /\ vstage = "loader.sitemap"
    /\ vresult' = [vresult EXCEPT !.ret = loader_sitemap_handler(vpayload, ext)]
    /\ vpc' = "done"
    /\ UNCHANGED <<vstage, vpayload>>

NextV ==
    \/ (VValidate /\ UNCHANGED besideVal)
    \/ (VCheck /\ UNCHANGED besideVal)
    \/ (\E ext \in LoadResults : VSitemapBody(ext) /\ UNCHANGED besideVal)

(***************************************************************************)
(* The workflow protocol (protocol.py) as tests.py drives it: Action.run   *)
(* appends Stages to Workflow.history, the Workflow is written with        *)
(* model_dump_json and read back with model_validate_json.                 *)
(***************************************************************************)

\* Total number of Action.run calls in one execution.
MaxStages == 3

\* Python values a StageDict holds: a tag, the lexeme of a scalar, and the
\* entries of a nested dict.
Py(t, s, d) == [t |-> t, s |-> s, d |-> d]

\* Number lexemes that carry a fraction: json reads them back as float.
FloatLexemes == {"0.1", "0.5"}

\* pydantic's JSON serialisation of an Any value.
RECURSIVE to_json(_)
to_json(v) ==
    CASE v.t = "str" -> [t |-> "string", s |-> v.s, d |-> <<>>]
      [] v.t = "int" -> [t |-> "number", s |-> v.s, d |-> <<>>]
      [] v.t = "float" -> [t |-> "number", s |-> v.s, d |-> <<>>]
      [] v.t = "NoneType" -> [t |-> "null", s |-> "null", d |-> <<>>]
      [] v.t = "dict" ->
           [t |-> "object", s |-> "",
            d |-> [i \in 1..Len(v.d) |-> <<v.d[i][1], to_json(v.d[i][2])>>]]

\* pydantic's JSON parsing into an Any value.
RECURSIVE from_json(_)
from_json(j) ==
    CASE j.t = "string" -> Py("str", j.s, <<>>)
      [] j.t = "number" ->
           IF j.s \in FloatLexemes THEN Py("float", j.s, <<>>) ELSE Py("int", j.s, <<>>)
      [] j.t = "null" -> Py("NoneType", "None", <<>>)
      [] j.t = "object" ->
           Py("dict", "",
              [i \in 1..Len(j.d) |-> <<j.d[i][1], from_json(j.d[i][2])>>])

\* class Stage: name, input, output, metadata.
Stage(name, input, output, metadata) ==
    [name |-> name, input |-> input, output |-> output, metadata |-> metadata]

\* Stage as model_dump_json writes it: every field under its own key.
Stage_model_dump(st) ==
    [name |-> st.name,
     input |-> to_json(Py("dict", "", st.input)).d,
     output |-> to_json(Py("dict", "", st.output)).d,
     metadata |-> to_json(Py("dict", "", st.metadata)).d]

\* Variant: validation that falls back to the default of `metadata`.
Stage_model_validate_nometa(js) ==
    Stage(js.name,
          from_json([t |-> "object", s |-> "", d |-> js.input]).d,
          from_json([t |-> "object", s |-> "", d |-> js.output]).d,
          <<>>)

\* Stage as model_validate_json builds it from its JSON object.
Stage_model_validate(js) ==
    Stage(js.name,
          from_json([t |-> "object", s |-> "", d |-> js.input]).d,
          from_json([t |-> "object", s |-> "", d |-> js.output]).d,
          from_json([t |-> "object", s |-> "", d |-> js.metadata]).d)

\* Workflow.model_dump_json(): the history list, entry by entry, in order.
Workflow_model_dump_json(hist) ==
    [i \in 1..Len(hist) |-> Stage_model_dump(hist[i])]

\* Workflow.model_validate_json(): a new Workflow from the JSON list.
Workflow_model_validate_json(js) ==
    [i \in 1..Len(js) |-> Stage_model_validate(js[i])]

\* d[k] = v on a dict kept as a sequence of <<key, value>> pairs.
DictSet(m, k, v) ==
    IF \E i \in 1..Len(m) : m[i][1] = k
    THEN [i \in 1..Len(m) |-> IF m[i][1] = k THEN <<k, v>> ELSE m[i]]
    ELSE Append(m, <<k, v>>)

\* TestAction._run: the action's logic output.
TestAction_run(input) ==
    << <<"something", Py("str", "done", <<>>)>>, <<"input", Py("dict", "", input)>> >>

TestActionName == "Test Action"

\* Variant: the new Stage is put in front of the history.
history_append_front(hist, st) == <<st>> \o hist

\* workflow.history.append(stage)
history_append(hist, st) == Append(hist, st)

\* Variant: run hands the logic output back and records an empty output.
Action_run_echo(hist, name, input, metadata, elapsed) ==
    LET md0 == IF metadata.given THEN metadata.d ELSE <<>>
        output == TestAction_run(input)
        md == DictSet(md0, "elapsed", Py("float", elapsed, <<>>))
    IN  [history |-> history_append(hist, Stage(name, input, <<>>, md)),
         logic |-> output,
         ret |-> output]

\* Action.run: runs _run, stamps the elapsed time into the metadata,
\* appends the Stage and returns an empty dict.
Action_run(hist, name, input, metadata, elapsed) ==
    LET md0 == IF metadata.given THEN metadata.d ELSE <<>>
        output == TestAction_run(input)
        md == DictSet(md0, "elapsed", Py("float", elapsed, <<>>))
    IN  [history |-> history_append(hist, Stage(name, input, output, md)),
         logic |-> output,
         ret |-> <<>>]

\* The inputs and metadata tests.py-style callers pass, and the clock.
WfInputs ==
    { << <<"value", Py("str", "test1", <<>>)>> >>,
      << <<"value", Py("int", "1", <<>>)>>, <<"note", Py("NoneType", "None", <<>>)>> >> }

WfMetadata ==
    { [given |-> FALSE, d |-> <<>>],
      [given |-> TRUE, d |-> << <<"by", Py("str", "me", <<>>)>> >>] }

WfElapsed == FloatLexemes

NoJson == [taken |-> FALSE, history |-> <<>>]

NoOp == [op |-> "none", n |-> 0, ret |-> <<>>, logic |-> <<>>, raised |-> "None"]

InitW ==
    /\ wfpc = "first"
    /\ wfHist = <<>>
    /\ wfFirst = NoJson
    /\ wfSecond = NoJson
    /\ wfLast = NoOp

\* action.run(workflow, input[, metadata])
WfRun(input, metadata, elapsed) ==
    /\ wfpc \in {"first", "loaded"}
    /\ wfLast.n < MaxStages
    /\ LET r == Action_run(wfHist, TestActionName, input, metadata, elapsed)
       IN  /\ wfHist' = r.history
           /\ wfLast' = [op |-> "run", n |-> wfLast.n + 1, ret |-> r.ret,
                         logic |-> r.logic, raised |-> "None"]
    /\ UNCHANGED <<wfpc, wfFirst, wfSecond>>

\* protocol.handler: runs a TestAction, then calls Workflow.add_stage, which
\* Workflow does not define.
WfHandler(input) ==
    /\ wfpc \in {"first", "loaded"}
    /\ wfLast.n < MaxStages
    /\ LET r == Action_run(wfHist, TestActionName, input,
                           [given |-> FALSE, d |-> <<>>], "0.1")
       IN  /\ wfHist' = r.history
           /\ wfLast' = [op |-> "handler", n |-> wfLast.n + 1, ret |-> r.ret,
                         logic |-> r.logic, raised |-> "AttributeError"]
    /\ UNCHANGED <<wfpc, wfFirst, wfSecond>>

\* workflow.model_dump_json()
WfDump ==
    /\ wfpc \in {"first", "loaded"}
    /\ wfLast.op # "dump"
    /\ IF wfpc = "first"
       THEN /\ wfFirst' = [taken |-> TRUE,
                           history |-> Workflow_model_dump_json(wfHist)]
            /\ UNCHANGED wfSecond
       ELSE /\ wfSecond' = [taken |-> TRUE,
                            history |-> Workflow_model_dump_json(wfHist)]
            /\ UNCHANGED wfFirst
    /\ wfLast' = [wfLast EXCEPT !.op = "dump"]
    /\ UNCHANGED <<wfpc, wfHist>>

\* Workflow.model_validate_json(first dump)
WfLoad ==
    /\ wfpc = "first"
    /\ wfFirst.taken
    /\ wfHist' = Workflow_model_validate_json(wfFirst.history)
    /\ wfpc' = "loaded"
    /\ wfLast' = [wfLast EXCEPT !.op = "load"]
    /\ UNCHANGED <<wfFirst, wfSecond>>

NextW ==
    \/ (\E input \in WfInputs, metadata \in WfMetadata, elapsed \in WfElapsed :
            WfRun(input, metadata, elapsed) /\ UNCHANGED besideWf)
    \/ (\E input \in WfInputs : WfHandler(input) /\ UNCHANGED besideWf)
    \/ (WfDump /\ UNCHANGED besideWf)
    \/ (WfLoad /\ UNCHANGED besideWf)

\* No workflow is being built.
WorkflowOff ==
    /\ wfpc = "off"
    /\ wfHist = <<>>
    /\ wfFirst = NoJson
    /\ wfSecond = NoJson
    /\ wfLast = NoOp

(***************************************************************************)
(* Text chunking of the ingestion path: DocumentProcessor._split_text      *)
(* (document_processor.py), and the blank-line normalisation of the        *)
(* chunker stage (chunker.py). Texts are sequences of one-character        *)
(* strings; Python offsets are 0-based, sequence indices 1-based.          *)
(***************************************************************************)

\* Longest text and largest chunk_size tried.
MaxTextLen == 6

MaxChunkSize == 6

\* The texts chunked: a letter, a sentence ending and the newline.
Texts == UNION { [1..n -> {"a", ".", "\n"}] : n \in 0..MaxTextLen }

Whitespace == {" ", "\n", "\t"}

Max(a, b) == IF a > b THEN a ELSE b

\* str.strip()
RECURSIVE lstrip(_)
lstrip(str) ==
    IF str # <<>> /\ Head(str) \in Whitespace THEN lstrip(Tail(str)) ELSE str

RECURSIVE rstrip(_)
rstrip(str) ==
    IF str # <<>> /\ str[Len(str)] \in Whitespace
    THEN rstrip(SubSeq(str, 1, Len(str) - 1))
    ELSE str

strip(str) == rstrip(lstrip(str))

\* The chunker stage's re.sub(r"(\n\s*)+\n", "\n\n", text): a stretch of
\* whitespace that runs from one newline to a later one becomes one blank
\* line.
RECURSIVE strip_duplicate_newlines(_)
strip_duplicate_newlines(text) ==
    IF text = <<>> THEN <<>>
    ELSE IF Head(text) # "\n"
    THEN <<Head(text)>> \o strip_duplicate_newlines(Tail(text))
    ELSE
      LET run == CHOOSE r \in 1..Len(text) :
                    /\ \A i \in 1..r : text[i] \in Whitespace
                    /\ (r = Len(text) \/ text[r + 1] \notin Whitespace)
          last == CHOOSE k \in 1..run :
                    /\ text[k] = "\n"
                    /\ \A j \in (k + 1)..run : text[j] # "\n"
      IN  IF last > 1
          THEN <<"\n", "\n">>
                 \o strip_duplicate_newlines(SubSeq(text, last + 1, Len(text)))
          ELSE <<"\n">> \o strip_duplicate_newlines(Tail(text))

\* text[a:b] for b >= 0; a negative a counts from the end of the text.
PySlice(text, a, b) ==
    LET n == Len(text)
        lo == IF a < 0 THEN Max(0, n + a) ELSE Min(a, n)
        hi == Min(b, n)
    IN  IF lo >= hi THEN <<>> ELSE SubSeq(text, lo + 1, hi)

\* The list _split_text looks a character up in; its last entry is a
\* two-character string.
sentence_endings == {".", "!", "?", "\n\n"}

\* How far back from the cut-off a sentence ending is looked for.
LookBack == 200

\* The for loop over range(len(chunk) - 1, max(0, len(chunk) - 200), -1):
\* the offset just after the last sentence ending found, or -1.
best_break(chunk) ==
    LET n == Len(chunk)
        found == { i \in (Max(0, n - LookBack) + 1)..(n - 1) :
                     chunk[i + 1] \in sentence_endings }
    IN  IF found = {} THEN -1
        ELSE (CHOOSE i \in found : \A j \in found : j <= i) + 1

\* The while loop of _split_text from offset `start` on. Every pass depends
\* on `start` alone, so a pass that begins at an offset seen before repeats
\* for ever: the call does not return. windows are the chunks as appended,
\* each with the offset it was cut at.
RECURSIVE split_loop(_, _, _, _, _, _)
split_loop(text, chunk_size, chunk_overlap, start, windows, seen) ==
    IF ~(start < Len(text)) THEN [returns |-> TRUE, windows |-> windows]
    ELSE IF start \in seen THEN [returns |-> FALSE, windows |-> windows]
    ELSE
      LET end == start + chunk_size
          chunk == PySlice(text, start, end)
          bb == best_break(chunk)
      IN  IF end >= Len(text)
          THEN [returns |-> TRUE,
                windows |-> Append(windows,
                    [start |-> start,
                     chunk |-> PySlice(text, start, Len(text))])]
          ELSE IF bb > 0
          THEN split_loop(text, chunk_size, chunk_overlap,
                          start + bb - chunk_overlap,
                          Append(windows,
                              [start |-> start, chunk |-> SubSeq(chunk, 1, bb)]),
                          seen \cup {start})
          ELSE split_loop(text, chunk_size, chunk_overlap,
                          end - chunk_overlap,
                          Append(windows, [start |-> start, chunk |-> chunk]),
                          seen \cup {start})

\* [chunk.strip() for chunk in chunks if chunk.strip()]
RECURSIVE strip_chunks(_)
strip_chunks(windows) ==
    IF windows = <<>> THEN <<>>
    ELSE LET c == strip(Head(windows).chunk)
         IN  (IF c = <<>> THEN <<>> ELSE <<c>>) \o strip_chunks(Tail(windows))

\* DocumentProcessor._split_text
split_text(text, chunk_size, chunk_overlap) ==
    IF Len(text) <= chunk_size
    THEN [returns |-> TRUE, chunks |-> <<text>>,
          windows |-> <<[start |-> 0, chunk |-> text]>>]
    ELSE LET r == split_loop(text, chunk_size, chunk_overlap, 0, <<>>, {})
         IN  [returns |-> r.returns,
              chunks |-> IF r.returns THEN strip_chunks(r.windows) ELSE <<>>,
              windows |-> r.windows]

\* The chunks process_text works on: none for a blank text.
process_text_chunks(text, chunk_size, chunk_overlap) ==
    IF strip(text) = <<>>
    THEN [returns |-> TRUE, chunks |-> <<>>, windows |-> <<>>]
    ELSE split_text(text, chunk_size, chunk_overlap)

NoSplit == [returns |-> FALSE, chunks |-> <<>>, windows |-> <<>>]

InitS ==
    /\ stext \in Texts
    /\ ssize \in 1..MaxChunkSize
    /\ soverlap \in 0..(ssize - 1)
    /\ spc = "ready"
    /\ sres = NoSplit

\* One call of the chunking of process_text.
SSplit ==
    /\ spc = "ready"
    /\ sres' = process_text_chunks(stext, ssize, soverlap)
    /\ spc' = IF sres'.returns THEN "done" ELSE "looping"
    /\ UNCHANGED <<stext, ssize, soverlap>>

NextS == SSplit /\ UNCHANGED besideSplit

\* No text is being chunked.
SplitOff ==
    /\ stext = <<>>
    /\ ssize = 1
    /\ soverlap = 0
    /\ spc = "off"
    /\ sres = NoSplit

(***************************************************************************)
(* Documents and their metadata through the stages that cut or rebuild     *)
(* them: the chunker handler, the translate handler, the web loader and    *)
(* DocumentProcessor.process_text. Each is called directly with a payload  *)
(* that passed validation.                                                 *)
(***************************************************************************)

\* Longest docs list handed to a stage.
MaxDocs == 2

\* d1 | d2 and d1.update(d2) on dicts kept as sequences of <<key, value>>.
RECURSIVE DictMerge(_, _)
DictMerge(d1, d2) ==
    IF d2 = <<>> THEN d1
    ELSE DictMerge(DictSet(d1, Head(d2)[1], Head(d2)[2]), Tail(d2))

HasKey(d, k) == \E i \in 1..Len(d) : d[i][1] = k

\* d.get(k, default)
DictGet(d, k, default) ==
    IF HasKey(d, k) THEN d[CHOOSE i \in 1..Len(d) : d[i][1] = k][2] ELSE default

\* str(i) for the small numbers that occur.
Str(i) == <<"0", "1", "2", "3", "4", "5", "6", "7", "8", "9">>[i + 1]

\* str(uuid.uuid4()) drawn in the i-th pass of a loop: never the same twice.
Uuid4(i) == <<"uuid-a", "uuid-b", "uuid-c", "uuid-d", "uuid-e", "uuid-f",
              "uuid-g", "uuid-h", "uuid-i", "uuid-j">>[i + 1]

\* A Document a stage builds or returns. src and part record which input
\* document and which of its chunks it was made from.
Document(page_content, id, metadata, src, part) ==
    [page_content |-> page_content, id |-> id, metadata |-> metadata,
     src |-> src, part |-> part]

\* RecursiveCharacterTextSplitter(chunk_size, chunk_overlap).split_text as
\* far as the handler depends on it: consecutive pieces of at most `width`
\* characters, stripped, blank pieces left out.
RECURSIVE splitter_split_text(_, _)
splitter_split_text(text, width) ==
    IF text = <<>> THEN <<>>
    ELSE LET piece == strip(PySlice(text, 0, width))
         IN  (IF piece = <<>> THEN <<>> ELSE <<piece>>)
             \o splitter_split_text(PySlice(text, width, Len(text)), width)

\* Variant: the chunks are built without their document's id.
chunk_documents_noid(doc, src, width) ==
    LET chunks == splitter_split_text(strip_duplicate_newlines(doc.page_content),
                                      width)
    IN  [j \in 1..Len(chunks) |->
            Document(chunks[j], <<>>, doc.metadata, src, j - 1)]

\* The inner loop of chunker_handler for the src-th input document:
\* a Document per chunk with the input document's id and metadata.
chunk_documents(doc, src, width) ==
    LET chunks == splitter_split_text(strip_duplicate_newlines(doc.page_content),
                                      width)
    IN  [j \in 1..Len(chunks) |->
            Document(chunks[j], <<doc.id>>, doc.metadata, src, j - 1)]

\* The outer loop of chunker_handler from the src-th document on. doc["id"]
\* is evaluated for every chunk: a document without an id that yields a
\* chunk raises KeyError.
RECURSIVE chunker_output_docs(_, _, _, _)
chunker_output_docs(docs, src, width, metadata) ==
    IF src > Len(docs) THEN [raised |-> FALSE, docs |-> <<>>]
    ELSE
      LET doc == docs[src]
          made == chunk_documents(doc, src, width)
          rest == chunker_output_docs(docs, src + 1, width, metadata)
      IN  IF made # <<>> /\ ~doc.hasId THEN [raised |-> TRUE, docs |-> <<>>]
          ELSE IF rest.raised THEN rest
          ELSE [raised |-> FALSE, docs |-> made \o rest.docs]

\* settings.translate.language
TranslateLanguage == "en"

\* translator.translate(text, language): some other text.
Translated(text) == <<"#">> \o text

\* The loop of the translate handler: a Document per input document whose
\* language was detected, with the merged metadata.
RECURSIVE translate_output_docs(_, _, _, _)
translate_output_docs(docs, src, metadata, detected) ==
    IF src > Len(docs) THEN <<>>
    ELSE
      LET doc == docs[src]
          own == IF doc.hasMeta THEN doc.metadata ELSE <<>>
          merged == DictMerge(DictMerge(own, metadata),
                              << <<"language", TranslateLanguage>> >>)
      IN  (IF detected[src]
           THEN <<Document(Translated(doc.page_content), <<>>, merged, src, 0)>>
           ELSE <<>>)
          \o translate_output_docs(docs, src + 1, metadata, detected)

\* MessageBody(docs=docs): the input documents validated as Documents.
AsDocuments(docs) ==
    [i \in 1..Len(docs) |->
        Document(docs[i].page_content,
                 IF docs[i].hasId THEN <<docs[i].id>> ELSE <<>>,
                 IF docs[i].hasMeta THEN docs[i].metadata ELSE <<>>,
                 i, 0)]

\* utils.strip_duplicate_whitespace: re.sub(r" +", " ", text)
RECURSIVE strip_duplicate_whitespace(_)
strip_duplicate_whitespace(text) ==
    IF Len(text) < 2 THEN text
    ELSE IF text[1] = " " /\ text[2] = " "
    THEN strip_duplicate_whitespace(Tail(text))
    ELSE <<Head(text)>> \o strip_duplicate_whitespace(Tail(text))

clean_text_body(text) ==
    strip_duplicate_newlines(strip_duplicate_whitespace(text))

\* The loop of loader_web_handler over the loaded documents.
loader_web_output_docs(loaded, metadata) ==
    [i \in 1..Len(loaded) |->
        Document(clean_text_body(loaded[i].page_content),
                 IF loaded[i].hasId THEN <<loaded[i].id>> ELSE <<>>,
                 DictMerge(loaded[i].metadata, metadata),
                 i, 0)]

\* The record process_text builds for chunk i (0-based) of `count` chunks.
processed_doc(chunk, i, count, metadata) ==
    LET chunk_metadata ==
            DictMerge(IF metadata.given THEN metadata.d ELSE <<>>,
                      << <<"chunk_index", Str(i)>>,
                         <<"chunk_count", Str(count)>>,
                         <<"chunk_size", Str(Len(chunk))>> >>)
        document_id == DictGet(chunk_metadata, "document_id", Uuid4(i))
    IN  Document(chunk,
                 <<document_id, "_chunk_", Str(i)>>,
                 << <<"filename", DictGet(chunk_metadata, "filename", "")>>,
                    <<"source", DictGet(chunk_metadata, "source", "")>>,
                    <<"file_extension", DictGet(chunk_metadata, "file_extension", "")>>,
                    <<"file_size", DictGet(chunk_metadata, "file_size", "0")>>,
                    <<"document_id", document_id>>,
                    <<"chunk_index", Str(i)>>,
                    <<"chunk_count", Str(count)>>,
                    <<"chunk_size", Str(Len(chunk))>> >>,
                 1, i)

\* The loop of process_text from chunk i on; embedded[i + 1] tells whether
\* the embeddings client returned an embedding for chunk i.
RECURSIVE process_chunks(_, _, _, _)
process_chunks(chunks, i, metadata, embedded) ==
    IF i >= Len(chunks) THEN <<>>
    ELSE (IF embedded[i + 1]
          THEN <<processed_doc(chunks[i + 1], i, Len(chunks), metadata)>>
          ELSE <<>>)
         \o process_chunks(chunks, i + 1, metadata, embedded)

\* Default chunk_size and chunk_overlap of process_text.
DefaultChunkSize == 1000

DefaultChunkOverlap == 200

\* Input documents, payload metadata and texts the stages are called with.
InputDoc(hasId, id, hasMeta, metadata, page_content) ==
    [hasId |-> hasId, id |-> id, hasMeta |-> hasMeta, metadata |-> metadata,
     page_content |-> page_content]

DocMetas == { <<>>, << <<"language", "de">> >> }

ChunkerDocs ==
    { InputDoc(hasId, IF hasId THEN id ELSE "", TRUE, md, t) :
        hasId \in BOOLEAN, id \in {"d1", "d2"}, md \in DocMetas,
        t \in { <<"a", ".">>,
                <<"a", ".", "\n", "\n", "\n", "a", ".">>,
                <<"\n">> } }

TranslateDocs ==
    { InputDoc(FALSE, "", hasMeta, IF hasMeta THEN md ELSE <<>>, t) :
        hasMeta \in BOOLEAN, md \in DocMetas,
        t \in {<<"a", ".">>, <<"\n">>} }

LoadedDocs ==
    { InputDoc(FALSE, "", TRUE, md, t) :
        md \in { << <<"source", "u">> >>, << <<"language", "de">> >> },
        t \in {<<"a", " ", " ", "a">>} }

ListsOf(S) == UNION { [1..n -> S] : n \in 0..MaxDocs }

PayloadMetas ==
    { <<>>, << <<"language", "fr">> >>, << <<"topic", "x">> >> }

PTexts == { <<"a">>, <<"\n">>, <<"a", ".", "a", "a", ".", "a", "a">> }

PMetas ==
    { [given |-> FALSE, d |-> <<>>],
      [given |-> TRUE, d |-> << <<"document_id", "d1">>, <<"filename", "f">> >>],
      [given |-> TRUE, d |-> << <<"document_id", "d1">>, <<"topic", "x">> >>],
      [given |-> TRUE, d |-> << <<"filename", "f">> >>],
      [given |-> TRUE, d |-> << <<"document_id", "d1">>, <<"chunk_index", "9">> >>] }

PParams ==
    { [chunk_size |-> DefaultChunkSize, chunk_overlap |-> DefaultChunkOverlap],
      [chunk_size |-> 3, chunk_overlap |-> 1] }

KInput(docs, metadata, text, chunk_size, chunk_overlap) ==
    [docs |-> docs, metadata |-> metadata, text |-> text,
     chunk_size |-> chunk_size, chunk_overlap |-> chunk_overlap]

KOutput(kind, docs, built, metadata) ==
    [kind |-> kind, docs |-> docs, built |-> built, metadata |-> metadata]

NoKInput == KInput(<<>>, [given |-> FALSE, d |-> <<>>], <<>>, 0, 0)

NoKOutput == KOutput("pending", <<>>, <<>>, <<>>)

InitK ==
    /\ kstage = "ready"
    /\ kin = NoKInput
    /\ kout = NoKOutput

\* chunker_handler on a valid payload {"data": {"docs": docs}, "metadata":
\* metadata}, the splitter configured with settings.chunker.chunk_size.
KChunker(docs, metadata, width) ==
    /\ kstage = "ready"
    /\ kstage' = "chunker"
    /\ kin' = KInput(docs, [given |-> TRUE, d |-> metadata], <<>>, width, 0)
    /\ LET r == chunker_output_docs(docs, 1, width, metadata)
       IN  kout' = IF r.raised THEN KOutput("KeyError", <<>>, <<>>, <<>>)
                   ELSE KOutput("envelope", r.docs, r.docs, metadata)

\* The translate handler on a valid payload {"options": {"docs": docs},
\* "metadata": metadata}: it builds output_docs and returns the input docs.
KTranslate(docs, metadata, detected) ==
    /\ kstage = "ready"
    /\ kstage' = "translate.llmtranslate"
    /\ kin' = KInput(docs, [given |-> TRUE, d |-> metadata], <<>>, 0, 0)
    /\ kout' = KOutput("envelope", AsDocuments(docs),
                       translate_output_docs(docs, 1, metadata, detected),
                       metadata)

\* loader_web_handler once WebBaseLoader(url).load() returned `loaded`.
KLoaderWeb(loaded, metadata) ==
    /\ kstage = "ready"
    /\ kstage' = "loader.web"
    /\ kin' = KInput(loaded, [given |-> TRUE, d |-> metadata], <<>>, 0, 0)
    /\ LET out == loader_web_output_docs(loaded, metadata)
       IN  kout' = KOutput("envelope", out, out, metadata)

\* DocumentProcessor.process_text(text, metadata, chunk_size, chunk_overlap).
KProcessText(text, metadata, params) ==
    /\ kstage = "ready"
    /\ kstage' = "process_text"
    /\ kin' = KInput(<<>>, metadata, text, params.chunk_size, params.chunk_overlap)
    /\ LET r == process_text_chunks(text, params.chunk_size, params.chunk_overlap)
       IN  IF ~r.returns
           THEN kout' = KOutput("looping", <<>>, <<>>, <<>>)
           ELSE \E embedded \in [1..Len(r.chunks) -> BOOLEAN] :
                  LET out == process_chunks(r.chunks, 0, metadata, embedded)
                  IN  kout' = KOutput("list", out, out, <<>>)

NextK ==
    \/ (/\ kstage = "ready"
        /\ \E docs \in ListsOf(ChunkerDocs), metadata \in PayloadMetas,
              width \in {2, DefaultChunkSize} :
               KChunker(docs, metadata, width) /\ UNCHANGED besideDocs)
    \/ (/\ kstage = "ready"
        /\ \E docs \in ListsOf(TranslateDocs), metadata \in PayloadMetas :
               \E detected \in [1..Len(docs) -> BOOLEAN] :
                   KTranslate(docs, metadata, detected) /\ UNCHANGED besideDocs)
    \/ (/\ kstage = "ready"
        /\ \E loaded \in ListsOf(LoadedDocs), metadata \in PayloadMetas :
               KLoaderWeb(loaded, metadata) /\ UNCHANGED besideDocs)
    \/ (/\ kstage = "ready"
        /\ \E text \in PTexts, metadata \in PMetas, params \in PParams :
               KProcessText(text, metadata, params) /\ UNCHANGED besideDocs)

\* No stage is called with documents.
DocsOff ==
    /\ kstage = "off"
    /\ kin = NoKInput
    /\ kout = NoKOutput

(***************************************************************************)
(* The vector store gateway (ChromaStore) and the retriever over it, each  *)
(* method called once on a store that holds some documents.  An embedding  *)
(* is kept as its cosine distance to the query, in tenths.                 *)
(***************************************************************************)

\* chromadb's ranking of the collection for the query: nearest first,
\* older entries before newer ones at the same distance.
RECURSIVE ranking(_)
ranking(coll) ==
    IF coll = <<>> THEN <<>>
    ELSE LET i == CHOOSE j \in 1..Len(coll) :
                    \A k \in 1..Len(coll) :
                        \/ coll[j].distance < coll[k].distance
                        \/ (coll[j].distance = coll[k].distance /\ j <= k)
         IN  <<coll[i]>>
               \o ranking(SubSeq(coll, 1, i - 1) \o SubSeq(coll, i + 1, Len(coll)))

\* RAGRetriever.__init__: top_k = 5, similarity_threshold = 0.3 (3 tenths).
DefaultTopK == 5
SimilarityThreshold == 3

\* f"Source: {source_name}\n{doc['content']}\n\n"
doc_text(doc) ==
    <<"S", "o", "u", "r", "c", "e", ":", " ">>
      \o DictGet(doc.metadata, "filename", doc.id)
      \o <<"\n">> \o doc.content \o <<"\n", "\n">>

\* The loop of RAGRetriever.retrieve_with_context over the documents that
\* retrieve returned, from the i-th on, and the dictionary it returns; parts
\* is context_parts, joined, and length is current_length.
RECURSIVE retrieve_with_context_skip(_, _, _, _, _, _)
retrieve_with_context_skip(documents, max_context_length, i, parts, sources, length) ==
    IF i > Len(documents)
    THEN [context |-> parts, sources |-> sources,
          documents |-> documents, total_length |-> length]
    ELSE IF length + Len(doc_text(documents[i])) > max_context_length
    THEN retrieve_with_context_skip(documents, max_context_length, i + 1,
                                    parts, sources, length)
    ELSE retrieve_with_context_skip(documents, max_context_length, i + 1,
             parts \o doc_text(documents[i]),
             Append(sources,
                    DictGet(documents[i].metadata, "filename", documents[i].id)),
             length + Len(doc_text(documents[i])))

RECURSIVE retrieve_with_context(_, _, _, _, _, _)
retrieve_with_context(documents, max_context_length, i, parts, sources, length) ==
    IF i > Len(documents)
         \/ length + Len(doc_text(documents[i])) > max_context_length
    THEN [context |-> parts, sources |-> sources,
          documents |-> documents, total_length |-> length]
    ELSE retrieve_with_context(documents, max_context_length, i + 1,
             parts \o doc_text(documents[i]),
             Append(sources,
                    DictGet(documents[i].metadata, "filename", documents[i].id)),
             length + Len(doc_text(documents[i])))

\* The documents a caller hands to add_documents: with an id or without,
\* well formed or lacking the embedding or the content.
StoreDocs ==
    { [hasId |-> h, id |-> IF h THEN id ELSE "",
       hasEmbedding |-> e, embedding |-> IF e THEN d ELSE 0, hasContent |-> c] :
        h \in BOOLEAN, id \in {"x", "y"}, e \in BOOLEAN, d \in {2, 8},
        c \in BOOLEAN }

\* The collections a store may hold when it is called.
Stores ==
    { <<>>,
      <<[id |-> "x", distance |-> 8]>>,
      <<[id |-> "z", distance |-> 8], [id |-> "x", distance |-> 2]>>,
      <<[id |-> "z", distance |-> 9], [id |-> "w", distance |-> 8]>> }

\* The documents a retrieve may hand to retrieve_with_context.
RetrievedDocs ==
    { [id |-> <<"x">>, content |-> <<"a", "b">>,
       metadata |-> << <<"filename", <<"f">> >> >>],
      [id |-> <<"y", "y">>, content |-> <<>>, metadata |-> <<>>],
      [id |-> <<"z">>, content |-> <<"a">>, metadata |-> <<>>] }

MaxContextLength == 30

\* What a method was called with, and the collection as it was then.
Asked(documents, ids, n, retrieved, coll) ==
    [documents |-> documents, ids |-> ids, n |-> n, retrieved |-> retrieved,
     coll |-> coll]

\* What a method did: how the call ended and what it returned.
Answer(op, kind, ids, n, matches, built) ==
    [op |-> op, kind |-> kind, ids |-> ids, n |-> n, matches |-> matches,
     context |-> built.context, sources |-> built.sources,
     total_length |-> built.total_length]

NoContext == [context |-> <<>>, sources |-> <<>>, total_length |-> 0]

InitG ==
    /\ gpc = "ready"
    /\ gcoll \in Stores
    /\ gin = Asked(<<>>, <<>>, 0, <<>>, <<>>)
    /\ gres = Answer("none", "none", <<>>, 0, <<>>, NoContext)

\* ChromaStore.add_documents(documents). collection.add is chromadb's: it
\* raises when the index fails (`fails`) and when two entries of the batch
\* have one id, and it leaves alone an entry whose id the collection holds.
GAdd_fresh(documents, fails) ==
    LET n == Len(documents)
        ids == [i \in 1..n |-> Uuid4(i - 1)]
        raises == \/ \E i \in 1..n : ~documents[i].hasEmbedding
                                       \/ ~documents[i].hasContent
                  \/ fails
                  \/ \E i, j \in 1..n : i < j /\ ids[i] = ids[j]
        entries == [i \in 1..n |->
                      [id |-> ids[i], distance |-> documents[i].embedding]]
    IN  /\ gpc = "ready"
        /\ gpc' = "done"
        /\ gin' = Asked(documents, <<>>, 0, <<>>, gcoll)
        /\ gcoll' = IF n = 0 \/ raises THEN gcoll
                    ELSE gcoll \o SelectSeq(entries,
                             LAMBDA e : ~\E j \in 1..Len(gcoll) :
                                            gcoll[j].id = e.id)
        /\ gres' = Answer("add_documents",
                          IF n > 0 /\ raises THEN "raised" ELSE "returned",
                          IF n = 0 \/ raises THEN <<>> ELSE ids,
                          0, <<>>, NoContext)

GAdd(documents, fails) ==
    LET n == Len(documents)
        \* doc.get("id") or str(uuid.uuid4())
        ids == [i \in 1..n |->
                  IF documents[i].hasId /\ documents[i].id # ""
                  THEN documents[i].id ELSE Uuid4(i - 1)]
        raises == \/ \E i \in 1..n : ~documents[i].hasEmbedding
                                       \/ ~documents[i].hasContent
                  \/ fails
                  \/ \E i, j \in 1..n : i < j /\ ids[i] = ids[j]
        entries == [i \in 1..n |->
                      [id |-> ids[i], distance |-> documents[i].embedding]]
    IN  /\ gpc = "ready"
        /\ gpc' = "done"
        /\ gin' = Asked(documents, <<>>, 0, <<>>, gcoll)
        /\ gcoll' = IF n = 0 \/ raises THEN gcoll
                    ELSE gcoll \o SelectSeq(entries,
                             LAMBDA e : ~\E j \in 1..Len(gcoll) :
                                            gcoll[j].id = e.id)
        /\ gres' = Answer("add_documents",
                          IF n > 0 /\ raises THEN "raised" ELSE "returned",
                          IF n = 0 \/ raises THEN <<>> ELSE ids,
                          0, <<>>, NoContext)

\* ChromaStore.query(query_embedding, n_results): collection.query's answer,
\* the n_results best ranked, or its exception.
GQuery(n_results, fails) ==
    /\ gpc = "ready"
    /\ gpc' = "done"
    /\ gin' = Asked(<<>>, <<>>, n_results, <<>>, gcoll)
    /\ gres' = Answer("query", IF fails THEN "raised" ELSE "returned", <<>>, 0,
                      IF fails THEN <<>> ELSE Take(ranking(gcoll), n_results),
                      NoContext)
    /\ UNCHANGED gcoll

\* ChromaStore.get_document_by_id(doc_id): the document, or None when
\* the collection has none of that id and when collection.get raised.
GGet(doc_id, fails) ==
    /\ gpc = "ready"
    /\ gpc' = "done"
    /\ gin' = Asked(<<>>, <<doc_id>>, 0, <<>>, gcoll)
    /\ gres' = Answer("get_document_by_id", "returned",
                      IF fails \/ ~\E j \in 1..Len(gcoll) : gcoll[j].id = doc_id
                      THEN <<>> ELSE <<doc_id>>,
                      0, <<>>, NoContext)
    /\ UNCHANGED gcoll

\* ChromaStore.delete_documents(doc_ids): True, or False when
\* collection.delete raised. n is 1 for True.
GDelete(doc_ids, fails) ==
    /\ gpc = "ready"
    /\ gpc' = "done"
    /\ gin' = Asked(<<>>, doc_ids, 0, <<>>, gcoll)
    /\ gcoll' = IF fails THEN gcoll
                ELSE SelectSeq(gcoll,
                         LAMBDA e : ~\E j \in 1..Len(doc_ids) : doc_ids[j] = e.id)
    /\ gres' = Answer("delete_documents", "returned", <<>>,
                      IF fails THEN 0 ELSE 1, <<>>, NoContext)

\* ChromaStore.count_documents(): collection.count()'s answer or exception.
GCount(fails) ==
    /\ gpc = "ready"
    /\ gpc' = "done"
    /\ gin' = Asked(<<>>, <<>>, 0, <<>>, gcoll)
    /\ gres' = Answer("count_documents",
                      IF fails THEN "raised" ELSE "returned", <<>>,
                      IF fails THEN 0 ELSE Len(gcoll), <<>>, NoContext)
    /\ UNCHANGED gcoll

\* RAGRetriever.retrieve(query) of a retriever configured with top_k, once
\* embed_texts returned query_embeddings (their number). The loop that
\* filters and annotates the matches stands in the block of the `if` that
\* has just returned: no pass of it ever runs, and the list returned at the
\* end is the empty one it was created as. n is the length of that list.
GRetrieve(query_embeddings, top_k, fails) ==
    LET results == IF fails THEN <<>> ELSE Take(ranking(gcoll), top_k)
        documents == <<>>
    IN  /\ gpc = "ready"
        /\ gpc' = "done"
        /\ gin' = Asked(<<>>, <<>>, top_k, <<>>, gcoll)
        /\ gres' = IF query_embeddings = 0
                   THEN Answer("retrieve", "returned", <<>>, 0, <<>>, NoContext)
                   ELSE IF fails
                   THEN Answer("retrieve", "raised", <<>>, 0, <<>>, NoContext)
                   ELSE IF results = <<>>
                   THEN Answer("retrieve", "returned", <<>>, 0, <<>>, NoContext)
                   ELSE Answer("retrieve", "returned", <<>>, Len(documents),
                               results, NoContext)
        /\ UNCHANGED gcoll

\* RAGRetriever.retrieve_with_context(query, max_context_length), with
\* `documents` what its call of retrieve returned.
GContext(documents, max_context_length) ==
    /\ gpc = "ready"
    /\ gpc' = "done"
    /\ gin' = Asked(<<>>, <<>>, max_context_length, documents, gcoll)
    /\ gres' = Answer("retrieve_with_context", "returned", <<>>,
                      Len(documents), <<>>,
                      retrieve_with_context(documents, max_context_length, 1,
                                            <<>>, <<>>, 0))
    /\ UNCHANGED gcoll

NextG ==
    \/ (/\ gpc = "ready"
        /\ \E documents \in ListsOf(StoreDocs), fails \in BOOLEAN :
               GAdd(documents, fails) /\ UNCHANGED besideStore)
    \/ (/\ gpc = "ready"
        /\ \E n_results \in {1, DefaultTopK}, fails \in BOOLEAN :
               GQuery(n_results, fails) /\ UNCHANGED besideStore)
    \/ (/\ gpc = "ready"
        /\ \E doc_id \in {"x", "y"}, fails \in BOOLEAN :
               GGet(doc_id, fails) /\ UNCHANGED besideStore)
    \/ (/\ gpc = "ready"
        /\ \E doc_ids \in {<<"x">>, <<"y", "z">>}, fails \in BOOLEAN :
               GDelete(doc_ids, fails) /\ UNCHANGED besideStore)
    \/ (/\ gpc = "ready"
        /\ \E fails \in BOOLEAN : GCount(fails) /\ UNCHANGED besideStore)
    \/ (/\ gpc = "ready"
        /\ \E query_embeddings \in {0, 1}, top_k \in {1, DefaultTopK},
              fails \in BOOLEAN :
               GRetrieve(query_embeddings, top_k, fails)
                 /\ UNCHANGED besideStore)
    \/ (/\ gpc = "ready"
        /\ \E documents \in ListsOf(RetrievedDocs),
              max_context_length \in 0..MaxContextLength :
               GContext(documents, max_context_length)
                 /\ UNCHANGED besideStore)

\* No store is called.
StoreOff ==
    /\ gpc = "off"
    /\ gcoll = <<>>
    /\ gin = Asked(<<>>, <<>>, 0, <<>>, <<>>)
    /\ gres = Answer("none", "none", <<>>, 0, <<>>, NoContext)

(***************************************************************************)
(* The API process: the five module globals of api/routes.py, the          *)
(* RAGRetriever objects built so far (each by its top_k), and the /query   *)
(* requests in flight. A request runs to its next await in one step; the   *)
(* awaits that suspend are embed_texts (an HTTP call) and agent.run.       *)
(***************************************************************************)
Calls == {1, 2}

\* No request: top_k -1 stands for None in the request, 0 for None in
\* original_top_k.
Idle ==
    [pc |-> "idle", top_k |-> -1, original_top_k |-> 0, before |-> 0,
     on |-> 0, used |-> 0, ndocs |-> 0, blank |-> TRUE,
     context_used |-> FALSE, retrieved_documents |-> 0]

\* get_instances(): the globals (embeddings_client, vector_store, retriever,
\* agent, processor; TRUE for set) after the call, in which the constructor
\* of the failAt-th raises (0: none raises).
get_instances(globals, failAt) ==
    IF globals[1] THEN globals
    ELSE [k \in 1..5 |-> IF failAt = 0 \/ k < failAt THEN TRUE ELSE globals[k]]

\* The finally block of RAGAgent.query.
query_finally_on_success(c, top_ks, raised) ==
    IF c.top_k # -1 /\ ~raised
    THEN [top_ks EXCEPT ![c.on] = c.original_top_k] ELSE top_ks

query_finally(c, top_ks, raised) ==
    IF c.top_k # -1 THEN [top_ks EXCEPT ![c.on] = c.original_top_k] ELSE top_ks

InitQ ==
    /\ inst = [k \in 1..5 |-> FALSE]
    /\ retr = <<>>
    /\ calls = [i \in Calls |-> Idle]

\* query_documents(request) up to the first await that suspends:
\* get_instances(), then RAGAgent.query as far as embed_texts.
QQuery(i, top_k, failAt) ==
    LET built == ~inst[1] /\ (failAt = 0 \/ failAt > 3)
        objects == IF built THEN Append(retr, DefaultTopK) ELSE retr
        on == Len(objects)
    IN  /\ calls[i].pc = "idle"
        /\ inst' = get_instances(inst, failAt)
        /\ IF (~inst[1] /\ failAt > 0) \/ ~inst'[4]
           THEN /\ retr' = objects
                /\ calls' = [calls EXCEPT ![i] = [Idle EXCEPT !.pc = "http500"]]
           ELSE /\ retr' = IF top_k # -1
                           THEN [objects EXCEPT ![on] = Max(1, top_k)]
                           ELSE objects
                /\ calls' = [calls EXCEPT ![i] =
                      [Idle EXCEPT !.pc = "embedding", !.top_k = top_k,
                           !.original_top_k =
                               IF top_k # -1 THEN objects[on] ELSE 0,
                           !.before = objects[on], !.on = on]]

\* embed_texts returned: retrieve queries the store with self.top_k as it is
\* now, retrieve_with_context builds the context from the documents, and
\* query goes on to agent.run.
QRetrieved(i, documents, max_context_length) ==
    LET c == calls[i]
        r == retrieve_with_context(documents, max_context_length, 1,
                                   <<>>, <<>>, 0)
    IN  /\ c.pc = "embedding"
        /\ calls' = [calls EXCEPT ![i] =
               [c EXCEPT !.pc = "generating", !.used = retr[c.on],
                         !.ndocs = Len(r.documents),
                         !.blank = (strip(r.context) = <<>>)]]
        /\ UNCHANGED <<inst, retr>>

\* agent.run returned `output`: the two fields are set from the retrieval,
\* the finally block runs and query returns.
QGenerated_as_generated(i, output) ==
    LET c == calls[i]
    IN  /\ c.pc = "generating"
        /\ calls' = [calls EXCEPT ![i] =
               [c EXCEPT !.pc = "returned", !.original_top_k = 0,
                         !.before = 0,
                         !.context_used = output.context_used,
                         !.retrieved_documents = output.retrieved_documents]]
        /\ retr' = query_finally(c, retr, FALSE)
        /\ UNCHANGED inst

QGenerated(i, output) ==
    LET c == calls[i]
    IN  /\ c.pc = "generating"
        /\ calls' = [calls EXCEPT ![i] =
               [c EXCEPT !.pc = "returned", !.original_top_k = 0,
                         !.before = 0,
                         !.context_used = ~c.blank,
                         !.retrieved_documents = c.ndocs]]
        /\ retr' = query_finally(c, retr, FALSE)
        /\ UNCHANGED inst

\* embed_texts, the store or agent.run raised: the finally block runs and
\* the exception leaves query; query_documents turns it into
\* HTTPException(500).
QRaised(i) ==
    LET c == calls[i]
    IN  /\ c.pc \in {"embedding", "generating"}
        /\ calls' = [calls EXCEPT ![i] =
               [Idle EXCEPT !.pc = "raised", !.top_k = c.top_k, !.on = c.on]]
        /\ retr' = query_finally(c, retr, TRUE)
        /\ UNCHANGED inst

\* clear_all_documents(), the directory removed and made again.
QClear ==
    /\ inst' = [k \in 1..5 |-> FALSE]
    /\ UNCHANGED <<retr, calls>>

NextQ ==
    \/ \E i \in Calls :
         /\ calls[i].pc = "idle"
         /\ \E top_k \in {-1, 0, 3}, failAt \in {0, 1, 2, 4} :
                QQuery(i, top_k, failAt) /\ UNCHANGED besideApi
    \/ \E i \in Calls :
         /\ calls[i].pc = "embedding"
         /\ \E documents \in {<<>>} \cup { <<d>> : d \in RetrievedDocs },
               max_context_length \in {0, MaxContextLength} :
                QRetrieved(i, documents, max_context_length)
                  /\ UNCHANGED besideApi
    \/ \E i \in Calls :
         /\ calls[i].pc = "generating"
         /\ \E output \in [context_used : BOOLEAN,
                           retrieved_documents : {0, 3}] :
                QGenerated(i, output) /\ UNCHANGED besideApi
    \/ \E i \in Calls : QRaised(i) /\ UNCHANGED besideApi
    \/ (/\ \E k \in 1..5 : inst[k]
        /\ QClear /\ UNCHANGED besideApi)

\* No API process runs.
ApiOff ==
    /\ inst = [k \in 1..5 |-> FALSE]
    /\ retr = <<>>
    /\ calls = [i \in Calls |-> [Idle EXCEPT !.pc = "off"]]

\* Nothing is called directly.
DirectOff ==
    /\ vstage = "chat"
    /\ vpayload = NoPayload
    /\ vpc = "off"
    /\ vresult = [validation |-> "pending", ret |-> Pending]

\* No dispatcher is running.
DispatcherOff ==
    /\ handlerName = "None"
    /\ topicOut = <<"a">>
    /\ pc = "off"
    /\ msgCount = 0
    /\ payload = NoPayload
    /\ model = NoModel
    /\ graphNode = "none"
    /\ retrieveRuns = 0
    /\ generateRuns = 0
    /\ context = <<>>
    /\ genInput = [called |-> FALSE, question |-> "None", context |-> <<>>]
    /\ answer = "none"
    /\ outcome = Pending
    /\ handlerCalls = 0
    /\ published = <<>>
    /\ crashed = FALSE
    /\ hadRaise = FALSE

\* Either the dispatcher serves inbound messages, or one handler is called
\* directly with one payload.
Init ==
    \/ (InitD /\ DirectOff /\ WorkflowOff /\ SplitOff /\ DocsOff
               /\ StoreOff /\ ApiOff)
    \/ (InitV /\ DispatcherOff /\ WorkflowOff /\ SplitOff /\ DocsOff
               /\ StoreOff /\ ApiOff)
    \/ (InitW /\ DispatcherOff /\ DirectOff /\ SplitOff /\ DocsOff
               /\ StoreOff /\ ApiOff)
    \/ (InitS /\ DispatcherOff /\ DirectOff /\ WorkflowOff /\ DocsOff
               /\ StoreOff /\ ApiOff)
    \/ (InitK /\ DispatcherOff /\ DirectOff /\ WorkflowOff /\ SplitOff
               /\ StoreOff /\ ApiOff)
    \/ (InitG /\ DispatcherOff /\ DirectOff /\ WorkflowOff /\ SplitOff
               /\ DocsOff /\ ApiOff)
    \/ (InitQ /\ DispatcherOff /\ DirectOff /\ WorkflowOff /\ SplitOff
               /\ DocsOff /\ StoreOff)

Next == NextD \/ NextV \/ NextW \/ NextS \/ NextK \/ NextG \/ NextQ

Spec == Init /\ [][Next]_vars

(***************************************************************************)
(* Properties                                                              *)
(***************************************************************************)
Topics(pubs) == [i \in 1..Len(pubs) |-> pubs[i].topic]

\* The topic names joined by the delimiter.
RECURSIVE JoinTopics(_)
JoinTopics(ts) ==
    IF ts = <<>> THEN <<>>
    ELSE IF Len(ts) = 1 THEN Head(ts)
    ELSE Head(ts) \o <<TOPIC_DELIMITER>> \o JoinTopics(Tail(ts))

Chars(str) == { str[i] : i \in 1..Len(str) }

\* One publish per entry of the comma-delimited topic list, in list order,
\* each with the serialized envelope env.
FannedOut(pubs, env) ==
    /\ pubs # <<>>
    /\ JoinTopics(Topics(pubs)) = topicOut
    /\ \A i \in 1..Len(pubs) :
         /\ TOPIC_DELIMITER \notin Chars(pubs[i].topic)
         /\ pubs[i].body = model_dump_json(env)

\* C1: when the stage handler raises for a message, nothing is published for
\* that message, no exception escapes on_message (the dispatcher returns to
\* its loop), and a later message whose handler returns a result is published
\* to every outbound topic as usual.
C1_HandlerRaiseIsolated ==
    /\ outcome.kind = "raise" =>
         /\ published = <<>>
         /\ ~crashed
         /\ pc = "returned"
    /\ (hadRaise /\ outcome.kind = "env") => FannedOut(published, outcome.env)

C1_Witness ==
    /\ hadRaise
    /\ msgCount = 2
    /\ outcome.kind = "env"
    /\ Len(published) >= 2

\* The message taken last could not be decoded.
Undecodable == pc = "crashed" \/ outcome.kind = "undecodable"

\* C2: for a raw payload that cannot be decoded (not UTF-8, or not JSON),
\* on_message invokes no handler, publishes nothing and returns without
\* raising.
C2_UndecodableDropped ==
    Undecodable => (handlerCalls = 0 /\ published = <<>> /\ ~crashed)

\* The required options key of the stage called directly is not in the
\* payload: there is no options field, or options is a mapping without it.
RequiredKeyMissing ==
    /\ vpayload.top = "obj"
    /\ vpayload.options.t \in {"absent", "map"}
    /\ Head(RequiredOptions(vstage)) \notin vpayload.options.keys

\* C3: for a stage with a required options key and an object payload in
\* which the key is absent (also when there is no options field at all),
\* validation yields the error outcome, the handler returns nothing and no
\* exception is raised.
C3_MissingKeyRejected ==
    (vpc \in {"body", "done"} /\ RequiredKeyMissing) =>
        (vresult.validation = "none" /\ vresult.ret.kind = "none")

\* The payload is not an object, or its options value is not a mapping.
Malformed ==
    \/ vpayload.top # "obj"
    \/ vpayload.options.t \in {"num", "list", "null", "str"}

\* C4: for a payload that is not an object, or whose options value is not a
\* mapping, validate_payload returns nothing and never raises.
C4_MalformedRejected ==
    (vpc \in {"validated", "body", "done"} /\ Malformed) => vresult.validation = "none"

\* C5: for each inbound message the dispatcher publishes exactly one message
\* per entry of the comma-delimited outbound topic list, all with the same
\* serialized envelope, when the handler returned a result, and nothing when
\* the handler returned nothing.
C5_FanOut ==
    IF outcome.kind = "env"
    THEN FannedOut(published, outcome.env)
    ELSE published = <<>>

C5_Witness ==
    /\ outcome.kind = "env"
    /\ Len(published) = 3
    /\ published[1].topic # published[2].topic

\* C6: when the configured stage name is not a key of the handler table,
\* every decoded message is dropped at the lookup: no handler is invoked,
\* nothing is published, on_message returns normally and later messages are
\* taken and dropped in the same way.
C6_UnknownStageDropped ==
    handlerName \notin HANDLERS =>
        /\ handlerCalls = 0
        /\ published = <<>>
        /\ outcome.kind \in {"pending", "undecodable", "unknown"}
        /\ outcome.kind = "unknown" => (pc = "returned" /\ ~crashed)
        /\ pc = "returned" => outcome.kind \in {"undecodable", "unknown"}

C6_Witness ==
    /\ handlerName = "loader.sitemap"
    /\ msgCount = 2
    /\ outcome.kind = "unknown"

\* C7 as claimed: no stage handler raises an external collaborator's failure
\* to the dispatcher.
C7_NeverRaisedToDispatcher ==
    ~(outcome.kind = "raise" /\ outcome.cause = "external")

\* C7 amended: a failure of an external collaborator never escapes
\* on_message and nothing is published for the message; the web loader, the
\* sitemap loader and the vector store's add_documents catch it inside the
\* handler, which returns nothing, while the chat, wikipedia and translate
\* handlers (and the vector store's connection setup) raise it to the
\* dispatcher, which catches it.
C7_ExternalFailureContained ==
    /\ outcome.cause = "external" =>
         /\ outcome.kind \in {"none", "raise"}
         /\ published = <<>>
         /\ ~crashed
         /\ pc = "returned"
         /\ handlerName = "loader.web" => outcome.kind = "none"
         /\ handlerName \in {"chat", "loader.wikipedia", "translate.llmtranslate"}
              => outcome.kind = "raise"
    /\ vresult.ret.cause = "external" =>
         (vstage = "loader.sitemap" /\ vresult.ret.kind = "none")

C7_Witness ==
    /\ handlerName = "loader.web"
    /\ outcome.cause = "external"
    /\ outcome.kind = "none"

\* C8: within one execution of the chat graph retrieve runs at most once and
\* generate at most once, generate starts only after retrieve has finished,
\* the graph ends only after both have run exactly once, and no step leads
\* from generate back to retrieve.
C8_RetrieveThenGenerate ==
    /\ [](/\ retrieveRuns <= 1
          /\ generateRuns <= 1
          /\ generateRuns = 1 => (retrieveRuns = 1 /\ graphNode \in {"retrieve", "generate", "__end__"})
          /\ graphNode \in {"generate", "__end__"} => (retrieveRuns = 1 /\ generateRuns = 1)
          /\ graphNode = "retrieve" => retrieveRuns = 1)
    /\ [][/\ graphNode = "generate" => graphNode' \in {"generate", "__end__"}
          /\ graphNode = "__end__" => graphNode' \in {"__end__", "none"}
          /\ graphNode = "retrieve" => graphNode' \in {"retrieve", "generate", "none"}]_vars

C8_Witness ==
    /\ graphNode = "__end__"
    /\ retrieveRuns = 1
    /\ generateRuns = 1

\* The context list of the envelope the chat handler returned.
EnvelopeContext == outcome.env.outputs[2][2]

ChatAnswered == handlerName = "chat" /\ outcome.kind = "env"

\* C9: for a retrieval result of n documents the context list of the output
\* envelope has min(2, n) entries, the first min(2, n) retrieved documents in
\* retrieval order, each with that document's id, content and metadata.
C9_ContextCappedAtTwo ==
    ChatAnswered =>
        /\ outcome.env.outputs[2][1] = "context"
        /\ Len(EnvelopeContext) = (IF Len(context) < 2 THEN Len(context) ELSE 2)
        /\ \A i \in 1..Len(EnvelopeContext) :
             /\ EnvelopeContext[i].id = context[i].id
             /\ EnvelopeContext[i].content = context[i].page_content
             /\ EnvelopeContext[i].metadata = context[i].metadata

C9_Witness ==
    /\ ChatAnswered
    /\ Len(context) = K
    /\ Len(EnvelopeContext) = 2
    /\ context[1].id > context[2].id

\* Position before which the i-th block of the joined context starts.
RECURSIVE BlockOffset(_, _)
BlockOffset(docs, i) ==
    IF i = 1 THEN 0
    ELSE BlockOffset(docs, i - 1) + Len(docs[i - 1].page_content) + 2

\* C10: the context handed to the generation client consists of the
\* contents of all retrieved documents in retrieval order, consecutive
\* contents separated by exactly two newlines; generate has been invoked
\* whenever the graph got past retrieve, and for an empty retrieval result
\* its context is empty.
C10_ContextIsAllRetrieved ==
    /\ graphNode \in {"generate", "__end__"} => genInput.called
    /\ genInput.called =>
         LET n == Len(context)
             g == genInput.context
         IN  /\ Len(g) = IF n = 0 THEN 0
                         ELSE BlockOffset(context, n) + Len(context[n].page_content)
             /\ \A i \in 1..n :
                  LET off == BlockOffset(context, i)
                      c == context[i].page_content
                  IN  /\ SubSeq(g, off + 1, off + Len(c)) = c
                      /\ i < n => (g[off + Len(c) + 1] = "\n" /\ g[off + Len(c) + 2] = "\n")

C10_Witness ==
    /\ genInput.called
    /\ Len(context) = K
    /\ graphNode = "__end__"

\* The empty-index case of C10: generate ran with an empty context.
C10_WitnessEmpty ==
    /\ genInput.called
    /\ context = <<>>
    /\ genInput.context = <<>>
    /\ graphNode = "__end__"

(***************************************************************************)
(* The workflow protocol                                                   *)
(***************************************************************************)

\* C11: for a workflow with N recorded stages that was serialized,
\* deserialized, extended by further Action.run calls and serialized again,
\* the second serialized history starts with the N entries of the first one,
\* equal in every field and in the same order, and continues with exactly
\* the entries appended after the reload.
C11_RoundTripContinuation ==
    (wfSecond.taken /\ wfLast.op = "dump") =>
        LET n == Len(wfFirst.history)
            m == Len(wfSecond.history)
        IN  /\ wfFirst.taken
            /\ m >= n
            /\ SubSeq(wfSecond.history, 1, n) = wfFirst.history
            /\ m = Len(wfHist)
            /\ \A i \in (n + 1)..m :
                 wfSecond.history[i] = Stage_model_dump(wfHist[i])

C11_Witness ==
    /\ wfSecond.taken
    /\ wfLast.op = "dump"
    /\ Len(wfFirst.history) >= 1
    /\ Len(wfSecond.history) > Len(wfFirst.history)
    /\ \E i \in 1..Len(wfFirst.history) : wfFirst.history[i].input # <<>>

\* C12: the history is append-only: every completed Action.run (also the one
\* protocol.handler makes) lengthens the history by exactly one Stage put at
\* the end and leaves every earlier entry as it was, at its position.
C12_AppendOnly ==
    [][wfLast'.n = wfLast.n + 1 =>
          /\ Len(wfHist') = Len(wfHist) + 1
          /\ SubSeq(wfHist', 1, Len(wfHist)) = wfHist]_vars

C12_Witness ==
    /\ wfLast.op \in {"run", "handler"}
    /\ wfpc = "loaded"
    /\ Len(wfHist) = MaxStages
    /\ wfHist[1] # wfHist[2]

\* C13: Action.run returns the empty mapping, and the mapping its logic
\* (TestAction._run) produced is the output of the Stage this call appended;
\* that Stage is named after the action and its metadata has an elapsed
\* entry.
C13_RunReturnsEmpty ==
    wfLast.op \in {"run", "handler"} =>
        LET st == wfHist[Len(wfHist)]
        IN  /\ wfLast.ret = <<>>
            /\ wfLast.logic = TestAction_run(st.input)
            /\ st.output = wfLast.logic
            /\ st.name = TestActionName
            /\ \E i \in 1..Len(st.metadata) : st.metadata[i][1] = "elapsed"

C13_Witness ==
    /\ wfLast.op = "run"
    /\ wfLast.ret = <<>>
    /\ wfHist[Len(wfHist)].output # <<>>
    /\ \E i \in 1..Len(wfHist[Len(wfHist)].metadata) :
         wfHist[Len(wfHist)].metadata[i][1] = "by"

(***************************************************************************)
(* Text chunking                                                           *)
(***************************************************************************)

\* A text with its blank-line runs collapsed and its surrounding whitespace
\* removed.
WhitespaceNormalized(text) == strip(strip_duplicate_newlines(text))

\* C14: for a text that is not blank and shorter than chunk_size, chunking
\* returns exactly one chunk, and that chunk is the whitespace-normalized
\* input: the input with its blank-line runs collapsed, or with its
\* surrounding whitespace removed, or both.
C14_ShortTextNormalized ==
    (spc \in {"done", "looping"} /\ strip(stext) # <<>> /\ Len(stext) < ssize) =>
        /\ sres.returns
        /\ Len(sres.chunks) = 1
        /\ sres.chunks[1] \in { strip_duplicate_newlines(stext),
                               strip(stext),
                               WhitespaceNormalized(stext) }

\* The call has returned.
Returned == spc = "done" /\ sres.returns

\* The first chunk whole, then of every later chunk the part after its first
\* chunk_overlap characters.
RECURSIVE NonOverlap(_, _, _)
NonOverlap(chunks, chunk_overlap, first) ==
    IF chunks = <<>> THEN <<>>
    ELSE (IF first THEN Head(chunks)
          ELSE SubSeq(Head(chunks), chunk_overlap + 1, Len(Head(chunks))))
         \o NonOverlap(Tail(chunks), chunk_overlap, FALSE)

WindowChunks(windows) == [i \in 1..Len(windows) |-> windows[i].chunk]

\* C15: chunking drops no character: the non-overlap regions of the chunks,
\* concatenated in order, give the normalized input text back. It is taken
\* to hold when it holds of the chunks as returned, up to whitespace
\* normalisation, or of the chunks as they were cut, before stripping.
C15_NoCharacterDropped ==
    (Returned /\ strip(stext) # <<>>) =>
        \/ NonOverlap(WindowChunks(sres.windows), soverlap, TRUE) = stext
        \/ WhitespaceNormalized(NonOverlap(sres.chunks, soverlap, TRUE))
             = WhitespaceNormalized(stext)

\* C16: every chunk returned has at most chunk_size characters, and every
\* window after the first begins exactly chunk_overlap characters before the
\* offset at which the previous chunk ended, inside the text, so that it
\* starts with the last chunk_overlap characters of the previous chunk.
C16_WindowsOverlap ==
    Returned =>
        /\ \A i \in 1..Len(sres.chunks) : Len(sres.chunks[i]) <= ssize
        /\ \A k \in 2..Len(sres.windows) :
             LET p == sres.windows[k - 1]
                 w == sres.windows[k]
             IN  /\ w.start = p.start + Len(p.chunk) - soverlap
                 /\ w.start >= 0
                 /\ Len(p.chunk) >= soverlap
                 /\ Len(w.chunk) >= soverlap
                 /\ SubSeq(w.chunk, 1, soverlap)
                      = SubSeq(p.chunk, Len(p.chunk) - soverlap + 1, Len(p.chunk))

\* The offsets of a window at which a sentence boundary ends: a '.', '!' or
\* '?' character, or the second newline of a blank line, within the range
\* the chunker looks at.
Boundaries(chunk) ==
    LET n == Len(chunk)
    IN  { i \in (Max(0, n - LookBack) + 1)..(n - 1) :
            \/ chunk[i + 1] \in {".", "!", "?"}
            \/ (chunk[i + 1] = "\n" /\ chunk[i] = "\n") }

\* C17: a window that is not the last ends immediately after the sentence
\* boundary nearest its hard cut-off when a boundary lies in the lookback
\* range, and at the hard cut-off of chunk_size characters only when none
\* does.
C17_BreakAtBoundary ==
    Returned =>
        \A k \in 1..(Len(sres.windows) - 1) :
            LET w == sres.windows[k]
                full == PySlice(stext, w.start, w.start + ssize)
                b == Boundaries(full)
            IN  w.start >= 0 =>
                  Len(w.chunk) = IF b = {} THEN ssize
                                 ELSE (CHOOSE i \in b : \A j \in b : j <= i) + 1

(***************************************************************************)
(* Documents and metadata through the stages                               *)
(***************************************************************************)

\* The stage returned documents.
Produced == kout.kind \in {"envelope", "list"}

\* The documents are listed by input document, and by chunk within one.
InDocumentOrder(docs) ==
    \A i, j \in 1..Len(docs) :
        i < j => \/ docs[i].src < docs[j].src
                 \/ (docs[i].src = docs[j].src /\ docs[i].part < docs[j].part)

\* Every key of `given` is in `metadata` with the value it has in `given`.
Keeps(metadata, given) ==
    \A i \in 1..Len(given) :
        /\ HasKey(metadata, given[i][1])
        /\ DictGet(metadata, given[i][1], "") = given[i][2]

CopiedFields == {"filename", "source", "file_extension", "file_size"}

C19_EnvelopeWithoutId ==
    kstage = "chunker" =>
        /\ kout.kind = "envelope"
        /\ \A j \in 1..Len(kout.docs) :
             Len(kout.docs[j].page_content) <= kin.chunk_size

\* C20: where a stage merges its own additions (the translate stage's
\* language tag, the chunk-position fields of process_text) with metadata
\* the caller supplied, every key the caller supplied has the caller's value
\* in the Documents the stage builds; in process_text, whose records have a
\* fixed set of fields, this is asked of the fields the record has.
C20_CallerMetadataKept ==
    /\ (kstage \in {"translate.llmtranslate", "loader.web"} /\ Produced) =>
           \A j \in 1..Len(kout.built) :
               Keeps(kout.built[j].metadata, kin.metadata.d)
    /\ (kstage = "process_text" /\ Produced) =>
           \A j \in 1..Len(kout.docs) :
               \A i \in 1..Len(kin.metadata.d) :
                   HasKey(kout.docs[j].metadata, kin.metadata.d[i][1]) =>
                       DictGet(kout.docs[j].metadata, kin.metadata.d[i][1], "")
                         = kin.metadata.d[i][2]

(***************************************************************************)
(* The translate envelope; termination of _split_text                      *)
(***************************************************************************)

\* C28: the envelope the translate stage returns holds the translated
\* documents: as many as the input documents whose language was detected,
\* in input order, each with the translated text and with the language tag
\* of the configured target language.
C28_EnvelopeHoldsTranslated ==
    (kstage = "translate.llmtranslate" /\ Produced) =>
        /\ Len(kout.docs) = Len(kout.built)
        /\ \A j \in 1..Len(kout.docs) :
             /\ kout.docs[j].page_content = kout.built[j].page_content
             /\ DictGet(kout.docs[j].metadata, "language", "")
                  = TranslateLanguage

\* C29: for every text, every chunk_size >= 1 and every overlap below it,
\* _split_text returns, and the offsets its loop cuts at are never negative
\* and strictly increase from one pass to the next.
C29_SplitTerminates ==
    /\ spc # "looping"
    /\ \A i \in 1..Len(sres.windows) :
         /\ sres.windows[i].start >= 0
         /\ i > 1 => sres.windows[i - 1].start < sres.windows[i].start

(***************************************************************************)
(* The vector store gateway, the retriever, the agent and the API process  *)
(***************************************************************************)

\* C21: no call of a gateway method (add_documents, query,
\* delete_documents, count_documents, get_document_by_id) ends with an
\* exception that leaves the method, whether the index failed or an input
\* document was malformed: each such call returns.
C21_NoExceptionEscapes ==
    gres.op \in {"add_documents", "query", "delete_documents",
                 "count_documents", "get_document_by_id"}
        => gres.kind = "returned"

\* C24: when add_documents returns, it returns one id per input document,
\* in input order: the caller's id where the document has one, a generated
\* one otherwise; if these ids differ from one another and from those
\* stored, the collection has as many documents more as there were inputs;
\* for no input it returns the empty list and leaves the collection alone.
C24_OneIdPerDocument ==
    (gres.op = "add_documents" /\ gres.kind = "returned") =>
        LET documents == gin.documents
            stored == { gin.coll[j].id : j \in 1..Len(gin.coll) }
        IN  /\ Len(gres.ids) = Len(documents)
            /\ \A i \in 1..Len(documents) :
                 IF documents[i].hasId
                 THEN gres.ids[i] = documents[i].id
                 ELSE gres.ids[i] \in { Uuid4(j) : j \in 0..9 }
            /\ (/\ \A i, j \in 1..Len(documents) :
                      i # j => gres.ids[i] # gres.ids[j]
                /\ \A i \in 1..Len(documents) : gres.ids[i] \notin stored)
                   => Len(gcoll) = Len(gin.coll) + Len(documents)
            /\ documents = <<>> => (gres.ids = <<>> /\ gcoll = gin.coll)

\* Two documents, the first with the caller's id and the second without
\* one, were added to a store that held documents.
C24_Witness ==
    /\ gres.op = "add_documents" /\ gres.kind = "returned"
    /\ Len(gin.documents) = 2
    /\ gin.documents[1].hasId /\ ~gin.documents[2].hasId
    /\ gres.ids[1] = gin.documents[1].id
    /\ gin.coll # <<>>
    /\ Len(gcoll) = Len(gin.coll) + 2

\* C26: when the store reports matches, retrieve returns those of them
\* whose similarity (1 - distance) is at least similarity_threshold: as
\* many as pass, none only if none passes.
C26_MatchesAboveThreshold ==
    (gres.op = "retrieve" /\ gres.kind = "returned") =>
        gres.n = Cardinality({ j \in 1..Len(gres.matches) :
                     10 - gres.matches[j].distance >= SimilarityThreshold })

\* The blocks of the first k documents, joined.
RECURSIVE Blocks(_, _)
Blocks(documents, k) ==
    IF k = 0 THEN <<>>
    ELSE Blocks(documents, k - 1) \o doc_text(documents[k])

\* C27: retrieve_with_context puts into the context the blocks of a prefix
\* of the retrieved documents, the longest one that fits (it stops at the
\* first block that would exceed max_context_length); the context is
\* total_length long and no longer than max_context_length; sources has
\* the name of each included document, in order.
C27_ContextIsFittingPrefix ==
    gres.op = "retrieve_with_context" =>
        LET documents == gin.retrieved
        IN  /\ \E k \in 0..Len(documents) :
                 /\ gres.context = Blocks(documents, k)
                 /\ gres.sources =
                      [i \in 1..k |->
                         DictGet(documents[i].metadata, "filename",
                                 documents[i].id)]
                 /\ \/ k = Len(documents)
                    \/ Len(gres.context) + Len(doc_text(documents[k + 1]))
                         > gin.n
            /\ Len(gres.context) = gres.total_length
            /\ gres.total_length <= gin.n

\* Of two retrieved documents the first is in the context and the second,
\* whose block alone would have fitted, is not.
C27_Witness ==
    /\ gres.op = "retrieve_with_context"
    /\ Len(gin.retrieved) = 2
    /\ Len(gres.sources) = 1
    /\ gres.context = doc_text(gin.retrieved[1])
    /\ Len(doc_text(gin.retrieved[2])) <= gin.n

\* C22: a call of RAGAgent.query whose request sets top_k leaves, when it
\* returns and when it raises, the retriever's top_k at the value it had
\* immediately before the call.
C22_TopKRestored ==
    [][\A i \in Calls :
          (/\ calls[i].pc \in {"embedding", "generating"}
           /\ calls'[i].pc \in {"returned", "raised"}
           /\ calls[i].top_k # -1)
              => retr'[calls[i].on] = calls[i].before]_vars

\* One request with top_k 3 has returned and one with top_k 0 has raised,
\* and the retriever has its configured top_k again.
C22_Witness ==
    /\ calls[1].pc = "returned" /\ calls[1].top_k = 3
    /\ calls[2].pc = "raised" /\ calls[2].top_k = 0
    /\ calls[1].on = calls[2].on
    /\ retr[calls[1].on] = DefaultTopK

\* C23: in every response of RAGAgent.query, context_used is true exactly
\* when the retrieved context is not blank, and retrieved_documents is the
\* number of documents the retriever returned, whatever the generation
\* client put in the two fields.
C23_FieldsFromRetrieval ==
    \A i \in Calls :
        calls[i].pc = "returned" =>
            /\ calls[i].context_used = ~calls[i].blank
            /\ calls[i].retrieved_documents = calls[i].ndocs

\* A response built on one retrieved document whose block did not fit the
\* context, and a response built on one that did.
C23_Witness ==
    /\ calls[1].pc = "returned" /\ calls[1].ndocs = 1 /\ calls[1].blank
    /\ calls[2].pc = "returned" /\ calls[2].ndocs = 1 /\ ~calls[2].blank
    /\ calls[2].context_used

\* C25: of two /query requests with different top_k on the one retriever,
\* each retrieves with its own top_k, and once both have finished the
\* retriever's top_k is the configured one.
C25_EachItsOwnTopK ==
    /\ \A i \in Calls :
         (calls[i].pc \in {"generating", "returned"} /\ calls[i].top_k # -1)
             => calls[i].used = Max(1, calls[i].top_k)
    /\ (/\ \A i \in Calls : calls[i].pc \in {"returned", "raised"}
        /\ calls[1].on = calls[2].on
        /\ calls[1].top_k # -1 /\ calls[2].top_k # -1
        /\ calls[1].top_k # calls[2].top_k)
           => retr[calls[1].on] = DefaultTopK

\* C30: the five globals of the API process are all unset or all set, in
\* every state: after an initialisation that failed part-way and after
\* clear_all_documents too.
C30_AllOrNone ==
    \/ \A k \in 1..5 : inst[k]
    \/ \A k \in 1..5 : ~inst[k]

====
